---------------------------- MODULE Spec2Model ----------------------------
(***************************************************************************)
(* Model of the calendar core of pilot-bot (src/calendar.js): the          *)
(* multi-calendar reader, the free-slot finder and the fuzzy event         *)
(* matcher, over a small Google-Calendar-like backend.                     *)
(* On top of it, the chat handlers of src/index.js and src/pilot.js: the   *)
(* create, cancel and reschedule handlers, and the pending choices that    *)
(* src/pilot.js keeps per user between messages.                           *)
(*                                                                         *)
(* Time is an integer number of seconds since local midnight of the day a  *)
(* request is about (the code's milliseconds, divided by 1000; the last    *)
(* instant of a day, 23:59:59.999, is its last second).  Text is a         *)
(* sequence of one-character strings (the en dash is written "EN_DASH").   *)
(***************************************************************************)
EXTENDS Integers, Sequences, FiniteSets, Bags, TLC

-----------------------------------------------------------------------------
(* CONFIG *)

MIN_HOUR == 8
MAX_HOUR == 22
DEFAULT_LIMIT == 100
DAYS_BACK == 7
DAYS_FORWARD == 30

\* Time unit: one second.
Minute == 60
Hour == 60 * Minute
Day == 24 * Hour

\* Offset of the configured zone (Africa/Johannesburg) from UTC.
TzOffset == 2 * Hour

\* CALENDAR_IDS after .filter(Boolean): the configured sources, in order.
CALENDAR_IDS == <<"cal1", "cal2">>

\* Largest number of events one source holds.
MaxEvents == 2

-----------------------------------------------------------------------------
(* TEXT HELPERS *)

UpperChars == <<"A", "B", "C", "D", "E", "F", "G", "H", "I", "J", "K", "L", "M",
                "N", "O", "P", "Q", "R", "S", "T", "U", "V", "W", "X", "Y", "Z">>
LowerChars == <<"a", "b", "c", "d", "e", "f", "g", "h", "i", "j", "k", "l", "m",
                "n", "o", "p", "q", "r", "s", "t", "u", "v", "w", "x", "y", "z">>

IsSpace(c) == c \in {" ", "\t", "\n"}

SetMin(S) == CHOOSE x \in S : \A y \in S : x <= y
SetMax(S) == CHOOSE x \in S : \A y \in S : x >= y

toLowerChar(c) ==
    IF \E i \in 1..26 : UpperChars[i] = c
    THEN LowerChars[CHOOSE i \in 1..26 : UpperChars[i] = c]
    ELSE c

\* String.prototype.toLowerCase
toLowerCase(s) == [i \in 1..Len(s) |-> toLowerChar(s[i])]

\* String.prototype.trim
trim(s) ==
    LET idx == {i \in 1..Len(s) : ~IsSpace(s[i])}
    IN  IF idx = {} THEN <<>> ELSE SubSeq(s, SetMin(idx), SetMax(idx))

\* String.prototype.includes
includes(text, q) ==
    \E i \in 1..(Len(text) - Len(q) + 1) : SubSeq(text, i, i + Len(q) - 1) = q

StartsWithAt(s, i, p) ==
    /\ i + Len(p) - 1 <= Len(s)
    /\ SubSeq(s, i, i + Len(p) - 1) = p

\* Length of the run of non-whitespace characters of s that starts at i.
RunLen(s, i) ==
    SetMin({j \in i..(Len(s) + 1) : j > Len(s) \/ IsSpace(s[j])}) - i

\* Length of the match of /https?:\/\/\S+/ at position i of s, 0 if none.
UrlMatchLen(s, i) ==
    IF s[i] # "h" THEN 0
    ELSE IF StartsWithAt(s, i, <<"h", "t", "t", "p", "s", ":", "/", "/">>) /\ RunLen(s, i + 8) > 0
    THEN 8 + RunLen(s, i + 8)
    ELSE IF StartsWithAt(s, i, <<"h", "t", "t", "p", ":", "/", "/">>) /\ RunLen(s, i + 7) > 0
    THEN 7 + RunLen(s, i + 7)
    ELSE 0

\* text.replace(/https?:\/\/\S+/g, "") from position i on.
RECURSIVE replaceUrls(_, _)
replaceUrls(s, i) ==
    IF i > Len(s) THEN <<>>
    ELSE IF s[i] # "h" \/ UrlMatchLen(s, i) = 0 THEN <<s[i]>> \o replaceUrls(s, i + 1)
    ELSE replaceUrls(s, i + UrlMatchLen(s, i))

\* stripUrls: a missing or empty text gives "".
stripUrls(text) ==
    IF text = <<>> THEN <<>> ELSE trim(replaceUrls(text, 1))

\* lower.split(/\s+/) followed by the filter's test "t &&".
RECURSIVE splitWs(_)
splitWs(s) ==
    IF s = <<>> THEN <<>>
    ELSE IF IsSpace(Head(s)) THEN splitWs(Tail(s))
    ELSE <<SubSeq(s, 1, RunLen(s, 1))>> \o splitWs(SubSeq(s, RunLen(s, 1) + 1, Len(s)))

\* The stopword list without "call".
stopwords_KeepCall == {
    <<"t", "h", "e">>,
    <<"a">>,
    <<"a", "n">>,
    <<"t", "o">>,
    <<"f", "o", "r">>,
    <<"w", "i", "t", "h">>,
    <<"m", "y">>,
    <<"m", "e">>,
    <<"p", "l", "e", "a", "s", "e">>,
    <<"m", "e", "e", "t", "i", "n", "g">>,
    <<"a", "p", "p", "o", "i", "n", "t", "m", "e", "n", "t">>,
    <<"s", "l", "o", "t">>,
    <<"e", "v", "e", "n", "t">>,
    <<"c", "a", "n", "c", "e", "l">>,
    <<"m", "o", "v", "e">>,
    <<"r", "e", "s", "c", "h", "e", "d", "u", "l", "e">>,
    <<"b", "o", "o", "k">>,
    <<"s", "c", "h", "e", "d", "u", "l", "e">> }

stopwords == {
    <<"t", "h", "e">>,
    <<"a">>,
    <<"a", "n">>,
    <<"t", "o">>,
    <<"f", "o", "r">>,
    <<"w", "i", "t", "h">>,
    <<"m", "y">>,
    <<"m", "e">>,
    <<"p", "l", "e", "a", "s", "e">>,
    <<"c", "a", "l", "l">>,
    <<"m", "e", "e", "t", "i", "n", "g">>,
    <<"a", "p", "p", "o", "i", "n", "t", "m", "e", "n", "t">>,
    <<"s", "l", "o", "t">>,
    <<"e", "v", "e", "n", "t">>,
    <<"c", "a", "n", "c", "e", "l">>,
    <<"m", "o", "v", "e">>,
    <<"r", "e", "s", "c", "h", "e", "d", "u", "l", "e">>,
    <<"b", "o", "o", "k">>,
    <<"s", "c", "h", "e", "d", "u", "l", "e">> }

\* e[f], or "" when the property is missing (undefined is falsy like "").
Prop(e, f) == IF f \in DOMAIN e THEN e[f] ELSE <<>>

-----------------------------------------------------------------------------
(* THE BACKEND: events the calendar sources may hold *)

Str_MorningGym == <<"M", "o", "r", "n", "i", "n", "g", " ", "G", "y", "m", " ", "S", "e", "s", "s", "i", "o", "n">>
Str_SergioCall == <<"S", "e", "r", "g", "i", "o", " ", "EN_DASH", " ", "S", "t", "r", "a", "t", "e", "g", "y", " ", "C", "a", "l", "l">>
Str_ZoomLink == <<"Z", "o", "o", "m", " ", "h", "t", "t", "p", "s", ":", "/", "/", "z", ".", "u", "s", "/", "1", " ", "l", "i", "n", "k">>
Str_SergioBirthday == <<"S", "e", "r", "g", "i", "o", "'", "s", " ", "B", "i", "r", "t", "h", "d", "a", "y">>
Str_CancelThe == <<"C", "a", "n", "c", "e", "l", " ", "t", "h", "e">>
Str_CallMom == <<"c", "a", "l", "l", " ", "m", "o", "m">>
Str_LateSync == <<"L", "a", "t", "e", " ", "s", "y", "n", "c", " ", "h", "t", "t", "p", ":", "/", "/", "m", ".", "c", "o", "/", "x">>
Str_MapUrl == <<"h", "t", "t", "p", "s", ":", "/", "/", "g", ".", "c", "o", "/", "r">>
Str_EarlyRun == <<"E", "a", "r", "l", "y", " ", "r", "u", "n">>

\* A time of day of the request's date, in seconds since local midnight.
At(h, m) == h * Hour + m * Minute

\* Google Calendar event resources.  A timed event has start.dateTime and
\* end.dateTime; an all-day event has the dates start.date and end.date
\* (day numbers, 0 = the request's date; the end date is exclusive).
EventPool == <<
    [id |-> 1, summary |-> Str_MorningGym,
     start |-> [dateTime |-> At(9, 0)], end |-> [dateTime |-> At(10, 0)]],
    [id |-> 2, summary |-> Str_SergioCall, description |-> Str_ZoomLink,
     start |-> [dateTime |-> At(9, 0)], end |-> [dateTime |-> At(9, 30)]],
    [id |-> 3, summary |-> Str_SergioBirthday,
     start |-> [date |-> 0], end |-> [date |-> 1]],
    [id |-> 4, summary |-> Str_CancelThe, description |-> Str_CallMom,
     start |-> [dateTime |-> At(20, 0)], end |-> [dateTime |-> At(21, 50)]],
    [id |-> 5, summary |-> Str_LateSync, location |-> Str_MapUrl,
     start |-> [dateTime |-> At(23, 0)], end |-> [dateTime |-> At(23, 30)]],
    [id |-> 6, summary |-> Str_EarlyRun,
     start |-> [dateTime |-> At(7, 0)], end |-> [dateTime |-> At(9, 0)]] >>

EventIds == 1..Len(EventPool)

CalIdx == 1..Len(CALENDAR_IDS)

\* new Date(x.dateTime || x.date): a date-only string parses as UTC midnight,
\* which is TzOffset after local midnight of that date.
DateOf(x) ==
    IF "dateTime" \in DOMAIN x THEN x.dateTime ELSE x.date * Day + TzOffset

\* The interval the backend holds an event to occupy (an all-day event
\* covers its dates in the calendar's zone).
BackendStart(e) ==
    IF "dateTime" \in DOMAIN e.start THEN e.start.dateTime ELSE e.start.date * Day
BackendEnd(e) ==
    IF "dateTime" \in DOMAIN e.end THEN e.end.dateTime ELSE e.end.date * Day

-----------------------------------------------------------------------------
(* STATE *)

VARIABLES
    store,      \* store[i]: the event resources source CALENDAR_IDS[i] holds
    op,         \* the request handled last ("init" before the first)
    down,       \* sources whose list query failed during that request
    range,      \* <<timeMin, timeMax>> of the range query of that request
    dur,        \* durationMinutes of findOpenSlots
    limit,      \* limit of findOpenSlots
    query,      \* searchText of searchEventsByText
    calls,      \* backend calls the request issued, in order
    threw,      \* TRUE iff the request ended by raising an error
    events,     \* what getEventsForRange returned during the request
    free,       \* what findOpenSlots returned
    matches,    \* what searchEventsByText returned
    mut,        \* the mutation made so far: its arguments, the answer of the
                \* backend, what it returned, and the store before it
    prior,      \* the read before the last one: what it returned, the
                \* sources that failed, and the store before it
    intent,     \* what the chat handler that ran last was called with
    reply,      \* the kind of reply the chat handler gave
    sessions,   \* the Map sessions of src/pilot.js: userId -> pending choice
    procs,      \* the calls of handleUserMessage that wait for an answer
    issued,     \* history: the calendar changes made from pending choices
    received    \* the number of messages received so far

\* The state src/pilot.js keeps between messages, and its history.
pilotVars == <<sessions, procs, issued, received>>

\* The state of the chat layer.
chatVars == <<intent, reply, pilotVars>>

vars == <<store, op, down, range, dur, limit, query, calls, threw, events, free, matches, mut,
          prior, chatVars>>

-----------------------------------------------------------------------------
(* GET EVENTS FOR RANGE (all calendars merged) *)

\* toISO: an instant and its ISO-8601 text denote the same instant.
toISO(d) == d

BackendBefore(a, b) ==
    \/ BackendStart(a) < BackendStart(b)
    \/ BackendStart(a) = BackendStart(b) /\ a.id < b.id

\* calendar.events.list({calendarId, timeMin, timeMax, singleEvents: true,
\* orderBy: "startTime"}): the events of source i that end after timeMin and
\* start before timeMax, ordered by start time.
RECURSIVE orderByStartTime(_)
orderByStartTime(S) ==
    IF S = {} THEN <<>>
    ELSE LET first == CHOOSE e \in S : \A o \in S \ {e} : BackendBefore(e, o)
         IN  <<first>> \o orderByStartTime(S \ {first})

eventsList(st, i, timeMin, timeMax) ==
    orderByStartTime({e \in st[i] : /\ BackendEnd(e) > timeMin
                                    /\ BackendStart(e) < timeMax})

\* sortByStart with its operands exchanged.
sortByStart_Reversed(a, b) == DateOf(b.start) - DateOf(a.start)

\* sortByStart(a, b): negative, zero or positive.
sortByStart(a, b) == DateOf(a.start) - DateOf(b.start)

\* An unstable insertion: an element goes before the elements equal to it.
RECURSIVE insertByStart_BeforeEqual(_, _)
insertByStart_BeforeEqual(sorted, x) ==
    IF sorted = <<>> THEN <<x>>
    ELSE IF DateOf(x.start) - DateOf(Head(sorted).start) <= 0 THEN <<x>> \o sorted
    ELSE <<Head(sorted)>> \o insertByStart_BeforeEqual(Tail(sorted), x)

\* Array.prototype.sort is stable: an element goes before the first element
\* the comparator puts strictly after it.
RECURSIVE insertByStart(_, _)
insertByStart(sorted, x) ==
    IF sorted = <<>> THEN <<x>>
    ELSE IF sortByStart(x, Head(sorted)) < 0 THEN <<x>> \o sorted
    ELSE <<Head(sorted)>> \o insertByStart(Tail(sorted), x)

RECURSIVE sortEvents(_)
sortEvents(arr) ==
    IF arr = <<>> THEN <<>>
    ELSE insertByStart(sortEvents(SubSeq(arr, 1, Len(arr) - 1)), arr[Len(arr)])

\* tagged giving every event the id of the first calendar.
tagged_First(items, calId) ==
    [k \in 1..Len(items) |-> [calendarId |-> CALENDAR_IDS[1]] @@ items[k]]

\* res.data.items.map((e) => ({ ...e, calendarId: calId }))
tagged(items, calId) ==
    [k \in 1..Len(items) |-> [calendarId |-> calId] @@ items[k]]

\* allEvents.map((e) => ({ ...e, summary: stripUrls(e.summary),
\*                         description: stripUrls(e.description) }))
sanitize(allEvents) ==
    [k \in 1..Len(allEvents) |->
        [summary |-> stripUrls(Prop(allEvents[k], "summary")),
         description |-> stripUrls(Prop(allEvents[k], "description"))] @@ allEvents[k]]

ListCall(i) == [api |-> "list", calendarId |-> CALENDAR_IDS[i]]

\* listOne without the catch: the failure of a list call ends the request.
listOne_Rethrow(acc, st, dn, timeMin, timeMax, i) ==
    IF i \in dn
    THEN [acc EXCEPT !.calls = @ \o <<ListCall(i)>>, !.threw = TRUE]
    ELSE [acc EXCEPT !.calls = @ \o <<ListCall(i)>>,
                     !.allEvents = @ \o tagged(eventsList(st, i, timeMin, timeMax),
                                               CALENDAR_IDS[i])]

\* One iteration of the loop over CALENDAR_IDS: the list call in its
\* try/catch.  acc = [allEvents, calls, threw].
listOne(acc, st, dn, timeMin, timeMax, i) ==
    IF i \in dn
    THEN [acc EXCEPT !.calls = @ \o <<ListCall(i)>>]
    ELSE [acc EXCEPT !.calls = @ \o <<ListCall(i)>>,
                     !.allEvents = @ \o tagged(eventsList(st, i, timeMin, timeMax),
                                               CALENDAR_IDS[i])]

RECURSIVE listFrom(_, _, _, _, _, _)
listFrom(acc, st, dn, timeMin, timeMax, i) ==
    IF i > Len(CALENDAR_IDS) \/ acc.threw THEN acc
    ELSE listFrom(listOne(acc, st, dn, timeMin, timeMax, i), st, dn, timeMin, timeMax, i + 1)

\* mergeAll keeping only the first of the events that have the same id.
mergeAll_Dedup(acc) ==
    [events |-> sortEvents(sanitize(
                    SelectSeq(acc.allEvents,
                              LAMBDA e : \E k \in 1..Len(acc.allEvents) :
                                  /\ acc.allEvents[k] = e
                                  /\ \A j \in 1..(k - 1) : acc.allEvents[j].id # e.id))),
     calls |-> acc.calls,
     threw |-> acc.threw]

\* What follows the loop: sanitize, sort, return.
mergeAll(acc) ==
    [events |-> IF acc.threw THEN <<>> ELSE sortEvents(sanitize(acc.allEvents)),
     calls |-> acc.calls,
     threw |-> acc.threw]

\* getEventsForRange(startInput, endInput): [events, calls, threw].
getEventsForRange(st, dn, startInput, endInput) ==
    IF Len(CALENDAR_IDS) = 0 THEN [events |-> <<>>, calls |-> <<>>, threw |-> FALSE]
    ELSE mergeAll(listFrom([allEvents |-> <<>>, calls |-> <<>>, threw |-> FALSE],
                           st, dn, toISO(startInput), toISO(endInput), 1))

\* getEventsForDate(dateInput): the range 00:00:00.000 .. 23:59:59.999 of the day.
getEventsForDate(st, dn, day) ==
    getEventsForRange(st, dn, day * Day, day * Day + Day - 1)

-----------------------------------------------------------------------------
(* FIND OPEN SLOTS BETWEEN MIN_HOUR AND MAX_HOUR *)

\* events.map((e) => ({ start: new Date(e.start.dateTime || e.start.date),
\*                      end: new Date(e.end.dateTime || e.end.date) }))
busyOf(evs) ==
    [k \in 1..Len(evs) |-> [start |-> DateOf(evs[k].start), end |-> DateOf(evs[k].end)]]

\* .sort((a, b) => a.start - b.start), stable.
RECURSIVE insertBusy(_, _)
insertBusy(sorted, x) ==
    IF sorted = <<>> THEN <<x>>
    ELSE IF x.start - Head(sorted).start < 0 THEN <<x>> \o sorted
    ELSE <<Head(sorted)>> \o insertBusy(Tail(sorted), x)

RECURSIVE sortBusy(_)
sortBusy(arr) ==
    IF arr = <<>> THEN <<>>
    ELSE insertBusy(sortBusy(SubSeq(arr, 1, Len(arr) - 1)), arr[Len(arr)])

\* Array.prototype.slice(0, n)
slice0(arr, n) ==
    LET stop == IF n < 0 THEN (IF Len(arr) + n < 0 THEN 0 ELSE Len(arr) + n)
                ELSE (IF n > Len(arr) THEN Len(arr) ELSE n)
    IN  SubSeq(arr, 1, stop)

\* A slot placed one duration after the start of the gap.
Slot_Later(cursor, durationMs) ==
    [start |-> cursor + durationMs, end |-> cursor + 2 * durationMs]

\* { start: new Date(cursor), end: new Date(cursor.getTime() + durationMs) }
Slot(cursor, durationMs) == [start |-> cursor, end |-> cursor + durationMs]

\* sweepStep emitting a slot before every interval that starts at or after
\* the cursor, however short the gap.
sweepStep_AnyGap(s, b, durationMs, lim) ==
    IF b.end <= s.cursor THEN s
    ELSE LET emit == b.start - s.cursor >= 0
             free2 == IF emit THEN Append(s.free, Slot(s.cursor, durationMs)) ELSE s.free
         IN  IF emit /\ Len(free2) >= lim
             THEN [free |-> free2, cursor |-> s.cursor, returned |-> TRUE]
             ELSE [free |-> free2,
                   cursor |-> IF b.end > s.cursor THEN b.end ELSE s.cursor,
                   returned |-> FALSE]

\* sweepStep with the cursor set to the end of every interval, also of one
\* that ends before the cursor.
sweepStep_CursorBack(s, b, durationMs, lim) ==
    LET emit == b.start - s.cursor >= durationMs
        free2 == IF emit THEN Append(s.free, Slot(s.cursor, durationMs)) ELSE s.free
    IN  IF emit /\ Len(free2) >= lim
        THEN [free |-> free2, cursor |-> s.cursor, returned |-> TRUE]
        ELSE [free |-> free2, cursor |-> b.end, returned |-> FALSE]

\* The body of the loop over busy, for the interval b.
\* s = [free, cursor, returned]; returned: the early "return free" was taken.
sweepStep(s, b, durationMs, lim) ==
    IF b.end <= s.cursor THEN s
    ELSE LET emit == b.start - s.cursor >= durationMs
             free2 == IF emit THEN Append(s.free, Slot(s.cursor, durationMs)) ELSE s.free
         IN  IF emit /\ Len(free2) >= lim
             THEN [free |-> free2, cursor |-> s.cursor, returned |-> TRUE]
             ELSE [free |-> free2,
                   cursor |-> IF b.end > s.cursor THEN b.end ELSE s.cursor,
                   returned |-> FALSE]

\* The loop from the k-th busy interval on.
RECURSIVE sweep(_, _, _, _, _)
sweep(s, busy, k, durationMs, lim) ==
    IF k > Len(busy) \/ s.returned THEN s
    ELSE sweep(sweepStep(s, busy[k], durationMs, lim), busy, k + 1, durationMs, lim)

\* sweepEnd without the trailing slot.
sweepEnd_NoTrailing(s, dayEnd, durationMs, lim) ==
    IF s.returned THEN s.free ELSE slice0(s.free, lim)

\* What follows the loop: the trailing slot and the final slice.
sweepEnd(s, dayEnd, durationMs, lim) ==
    IF s.returned THEN s.free
    ELSE slice0(IF dayEnd - s.cursor >= durationMs /\ Len(s.free) < lim
                THEN Append(s.free, Slot(s.cursor, durationMs))
                ELSE s.free,
                lim)

dayStartOf(day) == day * Day + MIN_HOUR * Hour
dayEndOf(day) == day * Day + MAX_HOUR * Hour

\* slotsOf stopping one slot after the limit.
slotsOf_OnePastLimit(r, day, durationMs, lim) ==
    [free |-> IF r.threw THEN <<>>
              ELSE sweepEnd(sweep([free |-> <<>>, cursor |-> dayStartOf(day), returned |-> FALSE],
                                  sortBusy(busyOf(r.events)), 1, durationMs, lim + 1),
                            dayEndOf(day), durationMs, lim + 1),
     events |-> r.events, calls |-> r.calls, threw |-> r.threw]

\* findOpenSlots after "await getEventsForDate(day)", r being what it returned.
slotsOf(r, day, durationMs, lim) ==
    [free |-> IF r.threw THEN <<>>
              ELSE sweepEnd(sweep([free |-> <<>>, cursor |-> dayStartOf(day), returned |-> FALSE],
                                  sortBusy(busyOf(r.events)), 1, durationMs, lim),
                            dayEndOf(day), durationMs, lim),
     events |-> r.events, calls |-> r.calls, threw |-> r.threw]

\* findOpenSlots(dateInput, durationMinutes, limit): [free, events, calls, threw].
\* durationMs is in the model's unit, the second: the code's value / 1000.
findOpenSlots(st, dn, day, durationMinutes, lim) ==
    slotsOf(getEventsForDate(st, dn, day), day, durationMinutes * 60, lim)

-----------------------------------------------------------------------------
(* SEARCH EVENTS BY TEXT *)

\* The instant a search is made: noon of day 0.
Now == At(12, 0)

\* lower.split(/\s+/).filter((t) => t && !stopwords.has(t))
tokensOf(lower) == SelectSeq(splitWs(lower), LAMBDA t : t \notin stopwords)

\* matchesIn asking for some token instead of every token.
matchesIn_SomeToken(text, lower, tokens) ==
    \/ includes(text, lower)
    \/ \E k \in 1..Len(tokens) : includes(text, tokens[k])

\* The filter callback of searchEventsByText, text and tokens being its locals.
matchesIn(text, lower, tokens) ==
    \/ includes(text, lower)
    \/ /\ Len(tokens) # 0
       /\ \A k \in 1..Len(tokens) : includes(text, tokens[k])

matchesText(e, lower) ==
    matchesIn(toLowerCase(Prop(e, "summary") \o <<" ">> \o Prop(e, "description")),
              lower, tokensOf(lower))

\* searchEventsByText after "await getEventsForRange(start, end)".
matchesOf(r, lower) ==
    [matches |-> IF r.threw \/ lower = <<>> THEN <<>>
                 ELSE SelectSeq(r.events, LAMBDA e : matchesText(e, lower)),
     events |-> r.events, calls |-> r.calls, threw |-> r.threw]

\* searchEventsByText(searchText, daysBack = 7, daysForward = 30):
\* [matches, events, calls, threw].
searchEventsByText(st, dn, searchText, daysBack, daysForward) ==
    IF Len(CALENDAR_IDS) = 0
    THEN [matches |-> <<>>, events |-> <<>>, calls |-> <<>>, threw |-> FALSE]
    ELSE matchesOf(getEventsForRange(st, dn, Now - daysBack * Day, Now + daysForward * Day),
                   trim(toLowerCase(searchText)))

-----------------------------------------------------------------------------
(* CREATE, CANCEL, RESCHEDULE *)

\* The backend knows the calendar calId.
CalKnown(calId) == \E i \in CalIdx : CALENDAR_IDS[i] = calId

\* The source that has the id calId.
SourceOf(calId) == CHOOSE i \in CalIdx : CALENDAR_IDS[i] = calId

\* The id the backend gives a new event of a source: one no event of the
\* source and no event of the pool has.
NewId(S) == SetMax({e.id : e \in S} \cup EventIds) + 1

\* The answer of the backend to a call on (calId, eventId): the calendar or
\* the event is unknown, the call fails (dn: the sources whose calls fail),
\* or the call is carried out.
statusOf(st, dn, calId, eventId) ==
    IF ~CalKnown(calId) THEN "notFound"
    ELSE IF SourceOf(calId) \in dn THEN "unavailable"
    ELSE IF \A e \in st[SourceOf(calId)] : e.id # eventId THEN "notFound"
    ELSE "ok"

\* calendar.events.insert({calendarId, requestBody}): [status, store, data].
\* The backend refuses an event that ends before it starts.
eventsInsert(st, dn, calId, requestBody) ==
    LET status == IF ~CalKnown(calId) THEN "notFound"
                  ELSE IF SourceOf(calId) \in dn THEN "unavailable"
                  ELSE IF requestBody.end.dateTime < requestBody.start.dateTime
                       THEN "badRequest"
                  ELSE "ok"
    IN  IF status # "ok" THEN [status |-> status, store |-> st]
        ELSE LET data == [id |-> NewId(st[SourceOf(calId)])] @@ requestBody
             IN  [status |-> "ok",
                  store |-> [st EXCEPT ![SourceOf(calId)] = @ \cup {data}],
                  data |-> data]

\* calendar.events.delete({calendarId, eventId}): [status, store].
eventsDelete(st, dn, calId, eventId) ==
    LET status == statusOf(st, dn, calId, eventId)
    IN  IF status # "ok" THEN [status |-> status, store |-> st]
        ELSE [status |-> "ok",
              store |-> [st EXCEPT ![SourceOf(calId)] = {e \in @ : e.id # eventId}]]

\* calendar.events.update in the place of patch: the request body becomes
\* the whole event.
eventsPatch_Update(st, dn, calId, eventId, requestBody) ==
    LET status == statusOf(st, dn, calId, eventId)
    IN  IF status # "ok" THEN [status |-> status, store |-> st]
        ELSE [status |-> "ok",
              store |-> [st EXCEPT ![SourceOf(calId)] =
                            {IF e.id = eventId THEN requestBody @@ [id |-> e.id] ELSE e : e \in @}]]

\* calendar.events.patch({calendarId, eventId, requestBody}): [status, store].
\* The fields of the request body replace those of the event; the others
\* stay.  The backend refuses an event that ends before it starts.
eventsPatch(st, dn, calId, eventId, requestBody) ==
    LET status == IF statusOf(st, dn, calId, eventId) # "ok"
                  THEN statusOf(st, dn, calId, eventId)
                  ELSE IF requestBody.end.dateTime < requestBody.start.dateTime
                       THEN "badRequest"
                  ELSE "ok"
    IN  IF status # "ok" THEN [status |-> status, store |-> st]
        ELSE [status |-> "ok",
              store |-> [st EXCEPT ![SourceOf(calId)] =
                            {IF e.id = eventId THEN requestBody @@ e ELSE e : e \in @}]]

\* An argument or property that is given (not undefined).
Given(a, f) == f \in DOMAIN a

\* { summary: title, description: description || "", location: location ||
\* undefined, start: { dateTime: start.toISOString() }, end: { dateTime:
\* end.toISOString() } }; a property that is undefined is not sent.
insertBody(a) ==
    LET always == [description |-> Prop(a, "description"),
                   start |-> [dateTime |-> toISO(a.start)],
                   end |-> [dateTime |-> toISO(a.end)]]
        titled == IF Given(a, "title") THEN always @@ [summary |-> a.title] ELSE always
    IN  IF Prop(a, "location") # <<>> THEN titled @@ [location |-> a.location] ELSE titled

InsertCall(calId) == [api |-> "insert", calendarId |-> calId]
DeleteCall(a) == [api |-> "delete", calendarId |-> a.calendarId, eventId |-> a.eventId]
PatchCall(a, newStart, newEnd) ==
    [api |-> "patch", calendarId |-> a.calendarId, eventId |-> a.eventId,
     start |-> toISO(newStart), end |-> toISO(newEnd)]

\* createEvent inserting into the last configured calendar.
createEvent_LastCalendar(ids, st, dn, a) ==
    IF Len(ids) = 0
    THEN [store |-> st, calls |-> <<>>, threw |-> TRUE, status |-> "none"]
    ELSE LET res == eventsInsert(st, dn, ids[Len(ids)], insertBody(a))
         IN  IF res.status # "ok"
             THEN [store |-> st, calls |-> <<InsertCall(ids[Len(ids)])>>, threw |-> TRUE,
                   status |-> res.status]
             ELSE [store |-> res.store, calls |-> <<InsertCall(ids[Len(ids)])>>,
                   threw |-> FALSE, status |-> "ok",
                   returned |-> [calendarId |-> ids[Len(ids)]] @@ res.data]

\* createEvent({title, start, end, description, location}), ids being
\* CALENDAR_IDS: [store, calls, threw, status, returned].
createEvent(ids, st, dn, a) ==
    IF Len(ids) = 0
    THEN [store |-> st, calls |-> <<>>, threw |-> TRUE, status |-> "none"]
    ELSE LET primaryId == ids[1]
             res == eventsInsert(st, dn, primaryId, insertBody(a))
         IN  IF res.status # "ok"
             THEN [store |-> st, calls |-> <<InsertCall(primaryId)>>, threw |-> TRUE,
                   status |-> res.status]
             ELSE [store |-> res.store, calls |-> <<InsertCall(primaryId)>>,
                   threw |-> FALSE, status |-> "ok",
                   returned |-> [calendarId |-> primaryId] @@ res.data]

\* cancelEventById(calendarId, eventId): [store, calls, threw, status].
cancelEventById(st, dn, a) ==
    IF ~Given(a, "calendarId") \/ ~Given(a, "eventId")
    THEN [store |-> st, calls |-> <<>>, threw |-> TRUE, status |-> "none"]
    ELSE LET res == eventsDelete(st, dn, a.calendarId, a.eventId)
         IN  [store |-> res.store, calls |-> <<DeleteCall(a)>>,
              threw |-> res.status # "ok", status |-> res.status]

\* rescheduleEventById without the test of its identifiers: an identifier
\* that is not given is sent as the calendar's first one.
rescheduleEventById_NoGuard(st, dn, a, newStart, newEnd) ==
    LET b == a @@ [calendarId |-> CALENDAR_IDS[1], eventId |-> 1]
        res == eventsPatch(st, dn, b.calendarId, b.eventId,
                           [start |-> [dateTime |-> toISO(newStart)],
                            end |-> [dateTime |-> toISO(newEnd)]])
    IN  [store |-> res.store, calls |-> <<PatchCall(b, newStart, newEnd)>>,
         threw |-> res.status # "ok", status |-> res.status]

\* rescheduleEventById(calendarId, eventId, newStart, newEnd):
\* [store, calls, threw, status].
rescheduleEventById(st, dn, a, newStart, newEnd) ==
    IF ~Given(a, "calendarId") \/ ~Given(a, "eventId")
    THEN [store |-> st, calls |-> <<>>, threw |-> TRUE, status |-> "none"]
    ELSE LET res == eventsPatch(st, dn, a.calendarId, a.eventId,
                                [start |-> [dateTime |-> toISO(newStart)],
                                 end |-> [dateTime |-> toISO(newEnd)]])
         IN  [store |-> res.store, calls |-> <<PatchCall(a, newStart, newEnd)>>,
              threw |-> res.status # "ok", status |-> res.status]

-----------------------------------------------------------------------------
(* REQUESTS *)

\* Inputs of the requests.
Durations == {30, 60, 900}
Limits == {0, 1, DEFAULT_LIMIT}
Ranges == {<<0, Day - 1>>, <<At(8, 0), At(9, 30)>>}

Q_gym == <<"g", "y", "m">>
Q_GymPadded == <<" ", "G", "y", "m", " ">>
Q_cancelSergio == <<"c", "a", "n", "c", "e", "l", " ", "t", "h", "e", " ", "s", "e", "r", "g", "i", "o", " ", "c", "a", "l", "l">>
Q_theCall == <<"t", "h", "e", " ", "c", "a", "l", "l">>
Q_birthdaySergio == <<"b", "i", "r", "t", "h", "d", "a", "y", " ", "s", "e", "r", "g", "i", "o">>
Q_blank == <<" ">>
Queries == {Q_GymPadded, Q_cancelSergio, Q_theCall, Q_birthdaySergio, Q_blank}

NoRange == <<0, 0>>

\* No request has been made yet.  A request reads the store and leaves it as
\* it was, and nothing of one request is read by the next, so that a second
\* request of a behaviour would only repeat a first one: a behaviour is a
\* state of the sources followed by one request.
Idle == op = "init"

\* The resources of the pool that have the ids S.
Resources(S) == {EventPool[id] : id \in S}

\* No mutation has been made yet.
NoMut == [done |-> FALSE]

\* No read has been repeated yet.
NoPrior == [taken |-> FALSE]

\* No chat handler has been called yet.
NoIntent == [type |-> "none"]

\* const sessions = new Map(): no user has a pending choice.
Users == {"A", "B"}
NoSession == [mode |-> "none"]

InitChat ==
    /\ intent = NoIntent
    /\ reply = "none"
    /\ sessions = [u \in Users |-> NoSession]
    /\ procs = EmptyBag
    /\ issued = EmptyBag
    /\ received = 0

Init ==
    /\ store \in [CalIdx -> {Resources(S) : S \in {T \in SUBSET EventIds : Cardinality(T) <= MaxEvents}}]
    /\ mut = NoMut
    /\ prior = NoPrior
    /\ InitChat
    /\ op = "init"
    /\ down = {}
    /\ range = NoRange
    /\ dur = 0
    /\ limit = 0
    /\ query = <<>>
    /\ calls = <<>>
    /\ threw = FALSE
    /\ events = <<>>
    /\ free = <<>>
    /\ matches = <<>>

GetEventsForRange ==
    /\ Idle
    /\ \E dn \in SUBSET CalIdx, rg \in Ranges :
        \E r \in {getEventsForRange(store, dn, rg[1], rg[2])} :
            /\ op' = "getEventsForRange"
            /\ down' = dn
            /\ range' = rg
            /\ events' = r.events
            /\ calls' = r.calls
            /\ threw' = r.threw
            /\ dur' = 0 /\ limit' = 0 /\ query' = <<>>
            /\ free' = <<>> /\ matches' = <<>>
            /\ UNCHANGED <<store, mut, prior, chatVars>>

\* A call of getEventsForDate for day 0.
CallGetEventsForDate ==
    \E dn \in SUBSET CalIdx :
        \E r \in {getEventsForDate(store, dn, 0)} :
            /\ op' = "getEventsForDate"
            /\ down' = dn
            /\ range' = <<0, Day - 1>>
            /\ events' = r.events
            /\ calls' = r.calls
            /\ threw' = r.threw
            /\ dur' = 0 /\ limit' = 0 /\ query' = <<>>
            /\ free' = <<>> /\ matches' = <<>>
            /\ UNCHANGED <<store, mut, prior, chatVars>>

GetEventsForDate == Idle /\ CallGetEventsForDate

\* A call of findOpenSlots for day 0 with a duration of the set D and a
\* limit of the set L.
CallFindOpenSlots(D, L) ==
    \E dn \in SUBSET CalIdx, d \in D, l \in L :
        \E r \in {findOpenSlots(store, dn, 0, d, l)} :
            /\ op' = "findOpenSlots"
            /\ down' = dn
            /\ range' = <<0, Day - 1>>
            /\ dur' = d
            /\ limit' = l
            /\ events' = r.events
            /\ calls' = r.calls
            /\ threw' = r.threw
            /\ free' = r.free
            /\ query' = <<>> /\ matches' = <<>>
            /\ UNCHANGED <<store, mut, prior, chatVars>>

FindOpenSlots == Idle /\ CallFindOpenSlots(Durations, Limits)

SearchEventsByText ==
    /\ Idle
    /\ \E dn \in SUBSET CalIdx, q \in Queries :
        \E r \in {searchEventsByText(store, dn, q, DAYS_BACK, DAYS_FORWARD)} :
            /\ op' = "searchEventsByText"
            /\ down' = dn
            /\ range' = <<Now - DAYS_BACK * Day, Now + DAYS_FORWARD * Day>>
            /\ query' = q
            /\ events' = r.events
            /\ calls' = r.calls
            /\ threw' = r.threw
            /\ matches' = r.matches
            /\ dur' = 0 /\ limit' = 0
            /\ free' = <<>>
            /\ UNCHANGED <<store, mut, prior, chatVars>>

Next ==
    \/ GetEventsForRange
    \/ GetEventsForDate
    \/ FindOpenSlots
    \/ SearchEventsByText

Spec == Init /\ [][Next]_vars

-----------------------------------------------------------------------------
(* REQUESTS THAT CHANGE THE CALENDARS *)

Str_Lunch == <<"L", "u", "n", "c", "h">>

\* Arguments of createEvent: a well-formed one, one that ends before it
\* starts, one that ends when it starts, one without a title.
CreateInputs ==
    { [title |-> Str_Lunch, description |-> Str_CallMom,
       start |-> At(12, 0), end |-> At(13, 0)],
      [title |-> Str_Lunch, start |-> At(13, 0), end |-> At(12, 0)],
      [title |-> Str_Lunch, start |-> At(12, 0), end |-> At(12, 0)],
      [start |-> At(12, 0), end |-> At(13, 0)] }

\* The values CALENDAR_IDS may have, by the environment of the process:
\* both calendars, the second one alone, none.
Configurations == {CALENDAR_IDS, <<CALENDAR_IDS[Len(CALENDAR_IDS)]>>, <<>>}

\* The events the sources hold before a mutation.
MutIds == {1, 3}

\* Arguments (calendarId, eventId) of cancelEventById and
\* rescheduleEventById: every pair, and each identifier alone.
Targets ==
    {[calendarId |-> CALENDAR_IDS[i], eventId |-> id] : i \in CalIdx, id \in MutIds}
    \cup {[calendarId |-> CALENDAR_IDS[i]] : i \in CalIdx}
    \cup {[eventId |-> id] : id \in MutIds}

\* Arguments (newStart, newEnd) of rescheduleEventById.
NewTimes == {<<At(14, 0), At(15, 0)>>, <<At(15, 0), At(14, 0)>>}

InitMut ==
    /\ store \in [CalIdx -> {Resources(S) : S \in SUBSET MutIds}]
    /\ mut = NoMut
    /\ prior = NoPrior
    /\ InitChat
    /\ op = "init"
    /\ down = {}
    /\ range = NoRange
    /\ dur = 0
    /\ limit = 0
    /\ query = <<>>
    /\ calls = <<>>
    /\ threw = FALSE
    /\ events = <<>>
    /\ free = <<>>
    /\ matches = <<>>

\* A mutation is made once, before or after a read; what the caller has of
\* the last read stays with it.
CanMutate == ~mut.done

\* A read is made before the mutation and after it.
ReadDay ==
    /\ op # "getEventsForDate"
    /\ CallGetEventsForDate

CreateEvent ==
    /\ CanMutate
    /\ \E ids \in Configurations, dn \in SUBSET CalIdx, a \in CreateInputs :
        \E r \in {createEvent(ids, store, dn, a)} :
            /\ op' = "createEvent"
            /\ down' = dn
            /\ store' = r.store
            /\ calls' = r.calls
            /\ threw' = r.threw
            /\ mut' = [done |-> TRUE, ids |-> ids, args |-> a, status |-> r.status,
                       returned |-> IF r.threw THEN <<>> ELSE r.returned,
                       before |-> store]
            /\ UNCHANGED <<range, dur, limit, query, events, free, matches, prior, chatVars>>

CancelEventById ==
    /\ CanMutate
    /\ \E dn \in SUBSET CalIdx, a \in Targets :
        \E r \in {cancelEventById(store, dn, a)} :
            /\ op' = "cancelEventById"
            /\ down' = dn
            /\ store' = r.store
            /\ calls' = r.calls
            /\ threw' = r.threw
            /\ mut' = [done |-> TRUE, args |-> a, status |-> r.status, before |-> store]
            /\ UNCHANGED <<range, dur, limit, query, events, free, matches, prior, chatVars>>

RescheduleEventById ==
    /\ CanMutate
    /\ \E dn \in SUBSET CalIdx, a \in Targets, t \in NewTimes :
        \E r \in {rescheduleEventById(store, dn, a, t[1], t[2])} :
            /\ op' = "rescheduleEventById"
            /\ down' = dn
            /\ store' = r.store
            /\ calls' = r.calls
            /\ threw' = r.threw
            /\ mut' = [done |-> TRUE, args |-> a, newStart |-> t[1], newEnd |-> t[2],
                       status |-> r.status, before |-> store]
            /\ UNCHANGED <<range, dur, limit, query, events, free, matches, prior, chatVars>>

NextMut ==
    \/ ReadDay
    \/ CreateEvent
    \/ CancelEventById
    \/ RescheduleEventById

SpecMut == InitMut /\ [][NextMut]_vars

-----------------------------------------------------------------------------
(* REQUESTS WITH A SMALL LIMIT *)

\* Limits that cut the result short.
SmallLimits == {1, 2, 3}

FindOpenSlotsLimited == Idle /\ CallFindOpenSlots(Durations, SmallLimits)

NextLimited == FindOpenSlotsLimited

SpecLimited == Init /\ [][NextLimited]_vars

-----------------------------------------------------------------------------
(* A READ MADE TWICE *)

\* A list call that takes the events it returns away from the source.
afterList_Consume(st) == [i \in DOMAIN st |-> {}]

\* The events of the sources after the list calls of a read: calendar.events.list
\* changes nothing.
afterList(st) == st

\* getEventsForRange called again with the range of the call before it,
\* nothing having been created, cancelled or rescheduled in between.
GetEventsForRangeAgain ==
    /\ op = "getEventsForRange"
    /\ ~prior.taken
    /\ \E dn \in SUBSET CalIdx :
        \E r \in {getEventsForRange(store, dn, range[1], range[2])} :
            /\ prior' = [taken |-> TRUE, events |-> events, down |-> down, store |-> store]
            /\ down' = dn
            /\ events' = r.events
            /\ calls' = r.calls
            /\ threw' = r.threw
            /\ store' = afterList(store)
            /\ UNCHANGED <<op, range, dur, limit, query, free, matches, mut, chatVars>>

NextReread ==
    \/ GetEventsForRange
    \/ GetEventsForRangeAgain

SpecReread == Init /\ [][NextReread]_vars

-----------------------------------------------------------------------------
(* REQUESTS WITH A MALFORMED DURATION *)

\* Durations that are not positive.
MalformedDurations == {0, 0 - 30}

FindOpenSlotsMalformed == Idle /\ CallFindOpenSlots(MalformedDurations, Limits)

NextMalformed == FindOpenSlotsMalformed

SpecMalformed == Init /\ [][NextMalformed]_vars

-----------------------------------------------------------------------------
(* THE CHAT HANDLERS OF src/index.js: create, cancel, reschedule *)

DEFAULT_DURATION_MIN == 60

Digits == <<"0", "1", "2", "3", "4", "5", "6", "7", "8", "9">>
IsDigit(c) == \E d \in 1..Len(Digits) : Digits[d] = c
DigitVal(c) == (CHOOSE d \in 1..Len(Digits) : Digits[d] = c) - 1
IsLetter(c) == \E i \in 1..Len(LowerChars) : c = LowerChars[i] \/ c = UpperChars[i]

\* The number a run of decimal digits denotes.
RECURSIVE DigitsValue(_)
DigitsValue(s) ==
    IF s = <<>> THEN 0
    ELSE DigitsValue(SubSeq(s, 1, Len(s) - 1)) * 10 + DigitVal(s[Len(s)])

\* The length of the run of digits at the head of s.
RECURSIVE DigitRun(_)
DigitRun(s) ==
    IF s = <<>> \/ ~IsDigit(s[1]) THEN 0 ELSE 1 + DigitRun(Tail(s))

NaN == [nan |-> TRUE]

\* parseInt(s, 10): white space is skipped, then a sign and the longest run
\* of digits are read; what follows the digits is ignored; without a digit
\* the result is NaN.
parseInt(s) ==
    LET t == trim(s)
        signed == t # <<>> /\ t[1] \in {"-", "+"}
        body == IF signed THEN Tail(t) ELSE t
        n == DigitRun(body)
        v == DigitsValue(SubSeq(body, 1, n))
    IN  IF n = 0 THEN NaN
        ELSE [nan |-> FALSE, value |-> IF signed /\ t[1] = "-" THEN 0 - v ELSE v]

Null == [ok |-> FALSE]

\* !x of a property that may be missing: a missing one and the empty string
\* are falsy.
Truthy(a, f) == Given(a, f) /\ a[f] # <<>>

Str_today == <<"t", "o", "d", "a", "y">>
Str_tomorrow == <<"t", "o", "m", "o", "r", "r", "o", "w">>
Str_Someday == <<" ", "S", "o", "m", "e", "d", "a", "y">>

\* resolveDate(input) of a text: "today" is now, "tomorrow" a day later;
\* any other text of the requests made here is no date to new Date(input).
resolveDate(input) ==
    LET text == toLowerCase(trim(input))
    IN  IF input = <<>> THEN Null
        ELSE IF text = Str_today THEN [ok |-> TRUE, at |-> Now]
        ELSE IF text = Str_tomorrow THEN [ok |-> TRUE, at |-> Now + Day]
        ELSE Null

\* parseTimeHM(str): the leftmost match of /(\d{1,2}):?(\d{2})?/.
parseTimeHM(str) ==
    IF \A i \in 1..Len(str) : ~IsDigit(str[i]) THEN Null
    ELSE LET i == SetMin({k \in 1..Len(str) : IsDigit(str[k])})
             j == IF i + 1 <= Len(str) /\ IsDigit(str[i + 1]) THEN i + 2 ELSE i + 1
             k == IF j <= Len(str) /\ str[j] = ":" THEN j + 1 ELSE j
             m2 == k + 1 <= Len(str) /\ IsDigit(str[k]) /\ IsDigit(str[k + 1])
         IN  [ok |-> TRUE,
              hours |-> DigitsValue(SubSeq(str, i, j - 1)),
              minutes |-> IF m2 THEN DigitsValue(SubSeq(str, k, k + 1)) ELSE 0]

\* d.setHours(hours, minutes, 0, 0) and d.getHours(), in local time.
setHours(d, hours, minutes) == (d - (d % Day)) + hours * Hour + minutes * Minute
getHours(d) == (d % Day) \div Hour

\* cleanSearchText(text): lower case, without what is neither a letter, a
\* digit nor white space, each run of white space made one space, trimmed.
cleanSearchText(text) ==
    LET kept == SelectSeq(toLowerCase(text),
                          LAMBDA c : IsLetter(c) \/ IsDigit(c) \/ IsSpace(c))
        idx == SelectSeq([i \in 1..Len(kept) |-> i],
                         LAMBDA i : ~IsSpace(kept[i]) \/ i = 1 \/ ~IsSpace(kept[i - 1]))
    IN  trim([n \in 1..Len(idx) |-> IF IsSpace(kept[idx[n]]) THEN " " ELSE kept[idx[n]]])

\* What a handler leaves when it replies without a backend call.
Quiet(st, kind) ==
    [reply |-> kind, store |-> st, calls |-> <<>>, threw |-> FALSE,
     events |-> <<>>, free |-> <<>>, matches |-> <<>>, mut |-> NoMut]

\* start.getHours() < MIN_HOUR || start.getHours() > MAX_HOUR
outsideHours(start) == getHours(start) < MIN_HOUR \/ getHours(start) > MAX_HOUR

\* handleCreateEvent({title, date, start_time, duration}) of src/index.js;
\* dn are the sources whose list call fails, dm those whose insert fails.
handleCreateEvent(st, dn, dm, it) ==
    IF ~Truthy(it, "title") THEN Quiet(st, "askTitle")
    ELSE LET baseDate == resolveDate(IF Truthy(it, "date") THEN it.date ELSE Str_today)
             durMin == IF Truthy(it, "duration") THEN parseInt(it.duration).value
                       ELSE DEFAULT_DURATION_MIN
         IN  IF ~baseDate.ok THEN Quiet(st, "askDate")
             ELSE IF ~Truthy(it, "start_time")
             THEN LET r == findOpenSlots(st, dn, baseDate.at \div Day, durMin, 3)
                  IN  [reply |-> IF Len(r.free) = 0 THEN "noSlots" ELSE "suggestions",
                       calls |-> r.calls, threw |-> r.threw, events |-> r.events,
                       free |-> r.free] @@ Quiet(st, "none")
             ELSE LET hm == parseTimeHM(it.start_time)
                  IN  IF ~hm.ok THEN Quiet(st, "badTime")
                      ELSE LET start == setHours(baseDate.at, hm.hours, hm.minutes)
                               end == start + durMin * Minute
                               a == [title |-> it.title, start |-> start, end |-> end]
                               r == createEvent(CALENDAR_IDS, st, dm, a)
                           IN  IF outsideHours(start) THEN Quiet(st, "outsideHours")
                               ELSE [reply |-> IF r.threw THEN "error" ELSE "created",
                                     store |-> r.store, calls |-> r.calls,
                                     mut |-> [done |-> TRUE, ids |-> CALENDAR_IDS, args |-> a,
                                              status |-> r.status,
                                              returned |-> IF r.threw THEN <<>> ELSE r.returned,
                                              before |-> st]] @@ Quiet(st, "none")

\* What a handler leaves after "await searchEventsByText(search)" alone.
Searched(st, r, kind) ==
    [reply |-> kind, calls |-> r.calls, events |-> r.events,
     matches |-> r.matches] @@ Quiet(st, "none")

\* handleCancel({target_event}) of src/index.js.
handleCancel(st, dn, dm, it) ==
    IF ~Truthy(it, "target_event") THEN Quiet(st, "askTarget")
    ELSE LET search == cleanSearchText(it.target_event)
             s == searchEventsByText(st, dn, search, DAYS_BACK, DAYS_FORWARD)
         IN  IF search = <<>> THEN Quiet(st, "askName")
             ELSE IF Len(s.matches) = 0 THEN Searched(st, s, "notFound")
             ELSE IF Len(s.matches) = 1
             THEN LET ev == s.matches[1]
                      a == [calendarId |-> ev.calendarId, eventId |-> ev.id]
                      r == cancelEventById(st, dm, a)
                  IN  [store |-> r.store, calls |-> s.calls \o r.calls,
                       mut |-> [done |-> TRUE, args |-> a, status |-> r.status,
                                before |-> st]]
                      @@ Searched(st, s, IF r.threw THEN "error" ELSE "cancelled")
             ELSE Searched(st, s, "list")

\* handleReschedule({target_event, date, start_time}) of src/index.js.
handleReschedule(st, dn, dm, it) ==
    IF ~Truthy(it, "target_event") THEN Quiet(st, "askTarget")
    ELSE LET search == cleanSearchText(it.target_event)
             s == searchEventsByText(st, dn, search, DAYS_BACK, DAYS_FORWARD)
         IN  IF Len(s.matches) = 0 THEN Searched(st, s, "notFound")
             ELSE IF Len(s.matches) > 1 THEN Searched(st, s, "list")
             ELSE LET ev == s.matches[1]
                      baseDate == IF Truthy(it, "date") THEN resolveDate(it.date)
                                  ELSE [ok |-> TRUE, at |-> DateOf(ev.start)]
                      hm == parseTimeHM(it.start_time)
                      newStart == setHours(baseDate.at, hm.hours, hm.minutes)
                      newEnd == newStart + DEFAULT_DURATION_MIN * Minute
                      a == [calendarId |-> ev.calendarId, eventId |-> ev.id]
                      r == rescheduleEventById(st, dm, a, newStart, newEnd)
                  IN  IF ~baseDate.ok THEN Searched(st, s, "askDate")
                      ELSE IF ~Truthy(it, "start_time") THEN Searched(st, s, "askTime")
                      ELSE IF ~hm.ok THEN Searched(st, s, "badTime")
                      ELSE [store |-> r.store, calls |-> s.calls \o r.calls,
                            mut |-> [done |-> TRUE, args |-> a, newStart |-> newStart,
                                     newEnd |-> newEnd, status |-> r.status,
                                     before |-> st]]
                           @@ Searched(st, s, IF r.threw THEN "error" ELSE "moved")

\* Times of day a request may name, as <<hours, minutes>>.
Clock == {<<7, 59>>, <<8, 0>>, <<21, 59>>, <<22, 0>>, <<22, 30>>, <<23, 0>>}

\* The text "HH:MM" of a time of day.
hhmm(c) ==
    <<Digits[(c[1] \div 10) + 1], Digits[(c[1] % 10) + 1], ":",
      Digits[(c[2] \div 10) + 1], Digits[(c[2] % 10) + 1]>>

Str_noon == <<"n", "o", "o", "n">>
Str_9 == <<"9">>
Str_30 == <<"3", "0">>
Str_Gym == <<"G", "y", "m", "?">>
Str_sergio == <<"s", "e", "r", "g", "i", "o">>
Str_dentist == <<"d", "e", "n", "t", "i", "s", "t">>
Str_Marks == <<"?", "!">>

\* A record of the properties fs, each with one of the values given for it
\* or missing.
WithField(S, f, V) == S \cup {[x \in {f} |-> v] @@ s : s \in S, v \in V}

StartTexts == {hhmm(c) : c \in Clock} \cup {Str_9, Str_noon}

CreateIntents ==
    WithField(WithField(WithField(WithField({<<>>}, "title", {Str_Lunch}),
                                  "date", {Str_tomorrow, Str_Someday}),
                        "start_time", StartTexts),
              "duration", {Str_30})

CancelIntents == WithField({<<>>}, "target_event", {Str_Gym, Str_sergio, Str_dentist, Str_Marks})

RescheduleIntents ==
    WithField(WithField(WithField({<<>>}, "target_event", {Str_Gym, Str_sergio, Str_dentist}),
                        "date", {Str_tomorrow, Str_Someday}),
              "start_time", {hhmm(<<8, 0>>), Str_noon})

\* The handler name was called with the intent it, and r is what it left.
Answered(name, it, dn, dm, r) ==
    /\ op' = name
    /\ intent' = it
    /\ reply' = r.reply
    /\ down' = dn \cup dm
    /\ store' = r.store
    /\ calls' = r.calls
    /\ threw' = r.threw
    /\ events' = r.events
    /\ free' = r.free
    /\ matches' = r.matches
    /\ mut' = r.mut
    /\ UNCHANGED <<range, dur, limit, query, prior>>

\* A handler of src/index.js keeps nothing between calls.
Answer(name, it, dn, dm, r) ==
    /\ Answered(name, it, dn, dm, r)
    /\ UNCHANGED pilotVars

HandleCreateEvent ==
    /\ Idle
    /\ \E dn \in SUBSET CalIdx, dm \in SUBSET CalIdx, it \in CreateIntents :
        \E r \in {handleCreateEvent(store, dn, dm, it)} :
            Answer("handleCreateEvent", it, dn, dm, r)

HandleCancel ==
    /\ Idle
    /\ \E dn \in SUBSET CalIdx, dm \in SUBSET CalIdx, it \in CancelIntents :
        \E r \in {handleCancel(store, dn, dm, it)} :
            Answer("handleCancel", it, dn, dm, r)

HandleReschedule ==
    /\ Idle
    /\ \E dn \in SUBSET CalIdx, dm \in SUBSET CalIdx, it \in RescheduleIntents :
        \E r \in {handleReschedule(store, dn, dm, it)} :
            Answer("handleReschedule", it, dn, dm, r)

-----------------------------------------------------------------------------
(* THE CHAT HANDLERS OF src/pilot.js: pending choices *)

\* The number of messages a behaviour receives.
MaxMessages == 3

\* A key shared by every user instead of message.author.id.
keyOf_Shared(userId) == CHOOSE k \in Users : TRUE

\* The key of a user's pending choice in sessions: message.author.id.
keyOf(userId) == userId

\* handlePendingFlow leaving the pending choice in sessions when an option
\* is selected.
clearOnSelect_Keep(ss, userId) == ss

\* sessions.delete(userId), made in handlePendingFlow before the backend
\* call is awaited.
clearOnSelect(ss, userId) == [ss EXCEPT ![keyOf(userId)] = NoSession]

IsWordChar(c) == IsLetter(c) \/ IsDigit(c) \/ c = "_"

\* /\bw\b/.test(s), w being a word.
hasWord(s, w) ==
    \E i \in 1..(Len(s) - Len(w) + 1) :
        /\ SubSeq(s, i, i + Len(w) - 1) = w
        /\ (i = 1 \/ ~IsWordChar(s[i - 1]))
        /\ (i + Len(w) > Len(s) \/ ~IsWordChar(s[i + Len(w)]))

Greetings ==
    { <<"h", "e", "y">>, <<"h", "i">>, <<"h", "e", "l", "l", "o">>, <<"y", "o">>,
      <<"m", "o", "r", "n", "i", "n", "g">>, <<"e", "v", "e", "n", "i", "n", "g">> }

\* isGreeting(text): /^(hey|hi|hello|yo|morning|evening)\b/ on the lower case.
isGreeting(text) ==
    LET lower == toLowerCase(text)
    IN  \E w \in Greetings :
            /\ Len(lower) >= Len(w)
            /\ SubSeq(lower, 1, Len(w)) = w
            /\ (Len(lower) = Len(w) \/ ~IsWordChar(lower[Len(w) + 1]))

\* extractDateFromText(text); no text of the messages received here holds a
\* date written with digits.
extractDateFromText(text) ==
    LET lower == toLowerCase(text)
    IN  IF hasWord(lower, Str_today) THEN [ok |-> TRUE, at |-> Now]
        ELSE IF hasWord(lower, Str_tomorrow) THEN [ok |-> TRUE, at |-> Now + Day]
        ELSE Null

DayWords ==
    { <<"s", "c", "h", "e", "d", "u", "l", "e">>, <<"c", "a", "l", "e", "n", "d", "a", "r">>,
      <<"a", "p", "p", "o", "i", "n", "t", "m", "e", "n", "t">>, <<"d", "a", "y">> }

\* parseBasicDayRequest(text)
parseBasicDayRequest(text) ==
    IF \A w \in DayWords : ~includes(toLowerCase(text), w) THEN Null
    ELSE extractDateFromText(text)

\* The date of handleCreateEvent and handleFindFreeTime.
dateOfIntent(it) ==
    IF Prop(it, "date") = Str_today THEN [ok |-> TRUE, at |-> Now]
    ELSE IF Prop(it, "date") = Str_tomorrow THEN [ok |-> TRUE, at |-> Now + Day]
    ELSE IF Truthy(it, "date") THEN extractDateFromText(it.date)
    ELSE Null

\* intent.duration && !isNaN(parseInt(intent.duration, 10))
\*     ? parseInt(intent.duration, 10) : DEFAULT_DURATION_MIN
durationOfIntent(it) ==
    IF Truthy(it, "duration") /\ ~parseInt(it.duration).nan
    THEN parseInt(it.duration).value
    ELSE DEFAULT_DURATION_MIN

Str_NewEvent == <<"N", "e", "w", " ", "e", "v", "e", "n", "t">>

\* intent.start_time.split(":").map((x) => parseInt(x, 10)): [h, m] of a
\* text with at most one colon.
splitTime(s) ==
    LET colons == {i \in 1..Len(s) : s[i] = ":"}
        i == IF colons = {} THEN Len(s) + 1 ELSE SetMin(colons)
    IN  [h |-> parseInt(SubSeq(s, 1, i - 1)),
         m |-> IF colons = {} THEN NaN ELSE parseInt(SubSeq(s, i + 1, Len(s)))]

\* What the part of a handler that runs without waiting leaves: the reply
\* (or "none" while it waits), the sessions, the call it waits for, and the
\* calendar change it made from a pending choice.
Step(kind, ss, w, h) == [reply |-> kind, sessions |-> ss, wait |-> w, issued |-> h]

\* handlePendingFlow(userId, session, text) up to its first await; n is the
\* number of the message.
handlePendingFlow(ss, n, userId, session, text) ==
    LET choice == parseInt(trim(text))
        idx == choice.value - 1
        from == [sid |-> session.sid, owner |-> session.owner, by |-> userId]
    IN  IF choice.nan THEN Step("askNumber", ss, {}, {})
        ELSE IF session.mode = "cancel_select"
        THEN IF idx < 0 \/ idx >= Len(session.events)
             THEN Step("noOption", ss, {}, {})
             ELSE LET ev == session.events[idx + 1]
                  IN  Step("none", clearOnSelect(ss, userId),
                           {[user |-> userId, pc |-> "cancel", sid |-> session.sid,
                             a |-> [calendarId |-> ev.calendarId, eventId |-> ev.id]]},
                           {[api |-> "delete"] @@ from})
        ELSE IF session.mode = "create_select_slot"
        THEN IF idx < 0 \/ idx >= Len(session.slots)
             THEN Step("noOption", ss, {}, {})
             ELSE LET slot == session.slots[idx + 1]
                  IN  Step("none", clearOnSelect(ss, userId),
                           {[user |-> userId, pc |-> "create", sid |-> session.sid,
                             a |-> [title |-> session.title, start |-> slot.start,
                                    end |-> slot.end]]},
                           {[api |-> "insert"] @@ from})
        ELSE Step("startFresh", [ss EXCEPT ![keyOf(userId)] = NoSession], {}, {})

\* handleCreateEvent(intent, userId) of src/pilot.js up to its first await.
createStart(ss, n, userId, it) ==
    LET title == IF trim(Prop(it, "title")) # <<>> THEN trim(it.title) ELSE Str_NewEvent
        duration == durationOfIntent(it)
        date == dateOfIntent(it)
        hm == splitTime(it.start_time)
        start == setHours(date.at, hm.h.value, IF hm.m.nan THEN 0 ELSE hm.m.value)
    IN  IF ~date.ok THEN Step("askDate", ss, {}, {})
        ELSE IF ~Truthy(it, "start_time")
        THEN Step("none", ss,
                  {[n |-> n, user |-> userId, pc |-> "slots", day |-> date.at \div Day,
                    dur |-> duration, title |-> title]}, {})
        ELSE IF hm.h.nan THEN Step("badTime", ss, {}, {})
        ELSE Step("none", ss,
                  {[user |-> userId, pc |-> "create",
                    a |-> [title |-> title, start |-> start,
                           end |-> start + duration * Minute]]}, {})

\* handleCancelEvent(intent, userId) up to its first await.
cancelStart(ss, n, userId, it) ==
    LET target == trim(Prop(it, "target_event"))
    IN  IF target = <<>> THEN Step("askTarget", ss, {}, {})
        ELSE Step("none", ss, {[n |-> n, user |-> userId, pc |-> "search",
                                target |-> target]}, {})

\* handleCancelEvent cancelling the first match when there are several.
cancelAfterSearch_First(ss, n, userId, found) ==
    IF Len(found) = 0 THEN Step("notFound", ss, {}, {})
    ELSE Step("none", ss,
              {[user |-> userId, pc |-> "cancel",
                a |-> [calendarId |-> found[1].calendarId, eventId |-> found[1].id]]},
              {})

\* handleCancelEvent after "await searchEventsByText(target)".
cancelAfterSearch(ss, n, userId, found) ==
    IF Len(found) = 0 THEN Step("notFound", ss, {}, {})
    ELSE IF Len(found) = 1
    THEN Step("none", ss,
              {[user |-> userId, pc |-> "cancel",
                a |-> [calendarId |-> found[1].calendarId, eventId |-> found[1].id]]},
              {})
    ELSE Step("list",
              [ss EXCEPT ![keyOf(userId)] =
                  [mode |-> "cancel_select", events |-> found, sid |-> n, owner |-> userId]],
              {}, {})

\* handleFindFreeTime(intent), run to its return: what findOpenSlots
\* returns goes to the reply alone.
handleFindFreeTime(st, dn, ss, it) ==
    LET date == dateOfIntent(it)
        r == findOpenSlots(st, dn, date.at \div Day, durationOfIntent(it), DEFAULT_LIMIT)
    IN  IF ~date.ok THEN Step("askDate", ss, {}, {})
        ELSE Step(IF r.threw THEN "none" ELSE IF Len(r.free) = 0 THEN "noSlots" ELSE "slots",
                  ss, {}, {})

\* The switch of handleUserMessage on the answer of interpretMessageLLM.
routeIntent(st, dn, ss, n, userId, it) ==
    IF it.intent = "create_event" THEN createStart(ss, n, userId, it)
    ELSE IF it.intent = "cancel_event" THEN cancelStart(ss, n, userId, it)
    ELSE IF it.intent = "find_free_time" THEN handleFindFreeTime(st, dn, ss, it)
    ELSE IF it.intent = "assistant_chat" THEN Step("chat", ss, {}, {})
    ELSE Step("unsure", ss, {}, {})

\* The way handleUserMessage takes with a message.
routeOf(ss, userId, content) ==
    IF ss[keyOf(userId)] # NoSession THEN "pending"
    ELSE IF isGreeting(trim(content)) THEN "greeting"
    ELSE IF parseBasicDayRequest(trim(content)).ok THEN "day"
    ELSE "intent"

\* handleUserMessage(message) up to the first await of a call that changes
\* the calendars or whose answer is kept, or to its return.  The answer it
\* of interpretMessageLLM is part of this step: between the call of the
\* language model and its answer the handler reads and writes nothing that
\* another handler shares.  The reads whose answer goes to the reply alone
\* (the events of a day, the free time) are part of this step as well.
handleUserMessage(st, dn, ss, n, userId, content, it) ==
    LET text == trim(content)
        route == routeOf(ss, userId, content)
    IN  IF route = "pending"
        THEN handlePendingFlow(ss, n, userId, ss[keyOf(userId)], text)
        ELSE IF route = "greeting" THEN Step("greeting", ss, {}, {})
        ELSE IF route = "day"
        THEN Step(IF getEventsForDate(st, dn, parseBasicDayRequest(text).at \div Day).threw
                  THEN "none" ELSE "dayList", ss, {}, {})
        ELSE routeIntent(st, dn, ss, n, userId, it)

\* handleCancelEvent(intent, userId) run from its call to its return with
\* no other handler in between.
handleCancelEvent(st, ss, dn, dm, userId, it) ==
    LET begun == cancelStart(ss, 1, userId, it)
        s == searchEventsByText(st, dn, trim(it.target_event), DAYS_BACK, DAYS_FORWARD)
        d == cancelAfterSearch(ss, 1, userId, s.matches)
        a == (CHOOSE p \in d.wait : TRUE).a
        r == cancelEventById(st, dm, a)
    IN  IF begun.wait = {} THEN [sessions |-> ss] @@ Quiet(st, begun.reply)
        ELSE IF d.wait = {} THEN [sessions |-> d.sessions] @@ Searched(st, s, d.reply)
        ELSE [sessions |-> ss, store |-> r.store, calls |-> s.calls \o r.calls,
              threw |-> r.threw,
              mut |-> [done |-> TRUE, args |-> a, status |-> r.status, before |-> st]]
             @@ Searched(st, s, IF r.threw THEN "none" ELSE "cancelled")

\* Answers of interpretMessageLLM that handleCancelEvent is called with.
CancelAnswers ==
    { [intent |-> "cancel_event", target_event |-> Str_sergio],
      [intent |-> "cancel_event", target_event |-> Q_GymPadded],
      [intent |-> "cancel_event"] }

HandleCancelEvent ==
    /\ Idle
    /\ \E dn \in SUBSET CalIdx, dm \in SUBSET CalIdx, u \in Users, it \in CancelAnswers :
        \E r \in {handleCancelEvent(store, sessions, dn, dm, u, it)} :
            /\ Answered("handleCancelEvent", [user |-> u] @@ it, dn, dm, r)
            /\ sessions' = r.sessions
            /\ UNCHANGED <<procs, issued, received>>

NextHandlers ==
    \/ HandleCreateEvent
    \/ HandleCancel
    \/ HandleReschedule
    \/ HandleCancelEvent

SpecHandlers == InitMut /\ [][NextHandlers]_vars

\* Texts of the messages received.
T_1 == <<"1">>
T_2please == <<" ", "2", " ", "p", "l", "e", "a", "s", "e">>
T_9 == <<"9">>
T_nope == <<"n", "o", "p", "e">>
T_Hi == <<"H", "i", "!">>
T_day == <<"m", "y", " ", "d", "a", "y", " ", "t", "o", "d", "a", "y">>

\* The calendars src/pilot.js starts with: the gym session and the call in
\* the first one, the birthday in the second.
InitPilot ==
    /\ store = <<Resources({1, 2}), Resources({3})>>
    /\ mut = NoMut
    /\ prior = NoPrior
    /\ InitChat
    /\ op = "init"
    /\ down = {}
    /\ range = NoRange
    /\ dur = 0
    /\ limit = 0
    /\ query = <<>>
    /\ calls = <<>>
    /\ threw = FALSE
    /\ events = <<>>
    /\ free = <<>>
    /\ matches = <<>>

\* A step of a handler of src/pilot.js: who it ran for, what it replied,
\* whether it ended by raising an error, and what it left.
Ran(name, who, failed, st, d) ==
    /\ op' = name
    /\ intent' = who
    /\ reply' = d.reply
    /\ threw' = failed
    /\ store' = st
    /\ sessions' = d.sessions
    /\ issued' = issued (+) SetToBag(d.issued)
    /\ UNCHANGED <<down, calls, events, free, matches, mut, range, dur, limit, query, prior>>

\* The answers of the language model and the failing sources that matter to
\* a message: none on the ways that ask neither.
AnswersFor(route, A) == IF route = "intent" THEN A ELSE {NoIntent}
FailuresFor(route, it, F) ==
    IF route = "day" \/ (route = "intent" /\ it.intent = "find_free_time")
    THEN F ELSE {{}}

\* A message of a user of U with a text of C arrives, and handleUserMessage
\* runs up to its first await of a backend call, or to its return; A are the
\* answers the language model may give and F the sets of sources that may
\* fail.
Receive(U, C, A, F) ==
    /\ received < MaxMessages
    /\ \E u \in U, content \in C :
        \E route \in {routeOf(sessions, u, content)} :
            \E it \in AnswersFor(route, A) :
                \E dn \in FailuresFor(route, it, F) :
                    \E d \in {handleUserMessage(store, dn, sessions, received + 1, u,
                                                content, it)} :
                        /\ Ran("handleUserMessage",
                               [user |-> u, text |-> content, route |-> route],
                               FALSE, store, d)
                        /\ procs' = procs (+) SetToBag(d.wait)
                        /\ received' = received + 1

\* The handler p goes on with the step d after an answer of the backend.
Resume(name, p, failed, st, d) ==
    /\ Ran(name, [user |-> p.user], failed, st, d)
    /\ procs' = (procs (-) SetToBag({p})) (+) SetToBag(d.wait)
    /\ received' = received

\* "await searchEventsByText(target)" of handleCancelEvent returns.
SearchReturns(F) ==
    \E p \in BagToSet(procs), dn \in F :
        /\ p.pc = "search"
        /\ \E r \in {searchEventsByText(store, dn, p.target, DAYS_BACK, DAYS_FORWARD)} :
            Resume("searchReturns", p, r.threw, store,
                   IF r.threw THEN Step("none", sessions, {}, {})
                   ELSE cancelAfterSearch(sessions, p.n, p.user, r.matches))

\* handleCreateEvent after "await findOpenSlots(date, duration, 3)".
createAfterSlots(ss, n, userId, title, slots) ==
    IF Len(slots) = 0 THEN Step("noSlots", ss, {}, {})
    ELSE Step("suggestions",
              [ss EXCEPT ![keyOf(userId)] =
                  [mode |-> "create_select_slot", title |-> title, slots |-> slots,
                   sid |-> n, owner |-> userId]],
              {}, {})

\* "await findOpenSlots(date, duration, 3)" of handleCreateEvent returns.
SlotsReturn(F) ==
    \E p \in BagToSet(procs), dn \in F :
        /\ p.pc = "slots"
        /\ \E r \in {findOpenSlots(store, dn, p.day, p.dur, 3)} :
            Resume("slotsReturn", p, r.threw, store,
                   IF r.threw THEN Step("none", sessions, {}, {})
                   ELSE createAfterSlots(sessions, p.n, p.user, p.title, r.free))

\* "await cancelEventById(ev.calendarId, ev.id)" returns or throws.
CancelReturns(F) ==
    \E p \in BagToSet(procs), dm \in F :
        /\ p.pc = "cancel"
        /\ \E r \in {cancelEventById(store, dm, p.a)} :
            Resume("cancelReturns", p, r.threw, r.store,
                   Step(IF r.threw THEN "none" ELSE "cancelled", sessions, {}, {}))

\* "await createEvent({title, start, end})" returns or throws.
CreateReturns(F) ==
    \E p \in BagToSet(procs), dm \in F :
        /\ p.pc = "create"
        /\ \E r \in {createEvent(CALENDAR_IDS, store, dm, p.a)} :
            Resume("createReturns", p, r.threw, r.store,
                   Step(IF r.threw THEN "none" ELSE "created", sessions, {}, {}))

\* The backend answers every call, or fails every call.
AllOrNone == {{}, CalIdx}
NoFailure == {{}}

\* Texts of the messages received, and the answers interpretMessageLLM
\* gives to those that reach it.
Contents == {T_1, T_2please, T_9, T_nope, T_Hi, T_day}
Answers ==
    { [intent |-> "cancel_event", target_event |-> Str_sergio],
      [intent |-> "create_event", title |-> Str_Lunch, date |-> Str_tomorrow],
      [intent |-> "assistant_chat"] }

\* The reads are answered; a call that changes a calendar may fail.
NextPilot ==
    \/ Receive(Users, Contents, Answers, NoFailure)
    \/ SearchReturns(NoFailure)
    \/ SlotsReturn(NoFailure)
    \/ CancelReturns(AllOrNone)
    \/ CreateReturns(AllOrNone)

SpecPilot == InitPilot /\ [][NextPilot]_vars

-----------------------------------------------------------------------------
(* PROPERTIES: the free-slot finder *)

WindowStart == 0 * Day + MIN_HOUR * Hour
WindowEnd == 0 * Day + MAX_HOUR * Hour

IsSlotsRequest == op = "findOpenSlots"

\* The half-open intervals [s.start, s.end) and [b.start, b.end) intersect.
Overlaps(s, b) == s.start < b.end /\ b.start < s.end

\* C1: every slot findOpenSlots returns for a positive duration lies inside
\* the working-hours window: it starts at or after 08:00 and ends at or
\* before 22:00 of the date.
C1_SlotsInsideWindow ==
    (IsSlotsRequest /\ dur > 0) =>
        \A k \in 1..Len(free) :
            free[k].start >= WindowStart /\ free[k].end <= WindowEnd

\* C2: every slot findOpenSlots returns is exactly dur minutes long and
\* overlaps the busy interval of no event fetched for the date, whichever
\* source it came from, overlapping or duplicate events included.
C2_SlotLengthAndNoOverlap ==
    IsSlotsRequest =>
        \A k \in 1..Len(free) :
            /\ free[k].end - free[k].start = dur * 60
            /\ \A j \in 1..Len(events) :
                /\ ~Overlaps(free[k], [start |-> DateOf(events[j].start),
                                       end |-> DateOf(events[j].end)])
                /\ ~Overlaps(free[k], [start |-> BackendStart(events[j]),
                                       end |-> BackendEnd(events[j])])

\* A request that returned two slots around events of which two are the same
\* event held by both sources.
C2_Witness ==
    /\ IsSlotsRequest
    /\ dur > 0
    /\ Len(free) >= 2
    /\ \E i, j \in 1..Len(events) :
        i # j /\ events[i].id = events[j].id /\ DateOf(events[i].end) > WindowStart

\* C9: with limit = 0 findOpenSlots returns no slot, whatever the date's
\* events and the duration.
C9_LimitZeroNoSlots ==
    (IsSlotsRequest /\ limit = 0) => free = <<>>

\* C10: on a date with no events findOpenSlots with the default limit returns
\* the single slot [windowStart, windowStart + dur) when the window is at
\* least dur long, and nothing otherwise.
C10_NoEventDay ==
    (IsSlotsRequest /\ events = <<>> /\ limit = DEFAULT_LIMIT) =>
        IF WindowEnd - WindowStart >= dur * 60
        THEN free = <<[start |-> WindowStart, end |-> WindowStart + dur * 60]>>
        ELSE free = <<>>

\* A 30-minute request on a day without events returned one slot.
C10_Witness ==
    /\ IsSlotsRequest
    /\ events = <<>>
    /\ limit = DEFAULT_LIMIT
    /\ dur = 30
    /\ Len(free) = 1

-----------------------------------------------------------------------------
(* PROPERTIES: the multi-calendar reader *)

IsRequest == op # "init"

\* Position of a source in configuration order.
CalPos(calId) == CHOOSE i \in CalIdx : CALENDAR_IDS[i] = calId

\* The events source i holds that the range query of the request covers.
InRange(i) ==
    {e.id : e \in {x \in store[i] : /\ BackendEnd(x) > range[1]
                                    /\ BackendStart(x) < range[2]}}

\* Position of event id in the answer source i gave to the request's query.
AnswerPos(i, id) ==
    CHOOSE k \in 1..Len(eventsList(store, i, range[1], range[2])) :
        eventsList(store, i, range[1], range[2])[k].id = id

\* C3: the sequence getEventsForRange returns is sorted ascending by start
\* instant: of two adjacent events the earlier one starts no later.
C3_SortedByStart ==
    IsRequest =>
        \A k \in 1..(Len(events) - 1) :
            DateOf(events[k].start) <= DateOf(events[k + 1].start)

\* The merge moved an event of a later source in front of an event of an
\* earlier source that starts later.
C3_Witness ==
    /\ op = "getEventsForRange"
    /\ Len(events) >= 3
    /\ \E i, j \in 1..Len(events) :
        /\ i < j
        /\ CalPos(events[i].calendarId) > CalPos(events[j].calendarId)
        /\ DateOf(events[i].start) < DateOf(events[j].start)

\* C4: events with equal start instants appear in source-configuration
\* order, and those of one source in the order that source returned them.
C4_TiesInSourceOrder ==
    IsRequest =>
        \A i, j \in 1..Len(events) :
            (i < j /\ DateOf(events[i].start) = DateOf(events[j].start)) =>
                /\ CalPos(events[i].calendarId) <= CalPos(events[j].calendarId)
                /\ events[i].calendarId = events[j].calendarId =>
                       AnswerPos(CalPos(events[i].calendarId), events[i].id)
                           < AnswerPos(CalPos(events[j].calendarId), events[j].id)

\* Equal starts both across two sources and within one source.
C4_Witness ==
    /\ op = "getEventsForRange"
    /\ \E i, j \in 1..Len(events) :
        /\ i < j
        /\ DateOf(events[i].start) = DateOf(events[j].start)
        /\ events[i].calendarId # events[j].calendarId
    /\ \E i, j \in 1..Len(events) :
        /\ i < j
        /\ DateOf(events[i].start) = DateOf(events[j].start)
        /\ events[i].calendarId = events[j].calendarId

\* C5: a failing source query never fails the read: the request raises no
\* error, every source is queried exactly once (no retry), a failed source
\* contributes no event, every other source contributes all of its events,
\* and when every source fails the result is empty.
C5_PartialFailureTolerant ==
    IsRequest =>
        /\ ~threw
        /\ calls = [i \in CalIdx |-> [api |-> "list", calendarId |-> CALENDAR_IDS[i]]]
        /\ \A k \in 1..Len(events) : CalPos(events[k].calendarId) \notin down
        /\ \A i \in CalIdx \ down : \A id \in InRange(i) :
               \E k \in 1..Len(events) :
                   events[k].id = id /\ events[k].calendarId = CALENDAR_IDS[i]
        /\ (down = CalIdx => events = <<>>)

\* One source failed while holding events, the other answered with events.
C5_Witness ==
    /\ op = "getEventsForRange"
    /\ \E i \in down : InRange(i) # {}
    /\ \E i \in CalIdx \ down : InRange(i) # {}
    /\ events # <<>>

\* The resource with the given id that source i holds.
Held(i, id) == CHOOSE e \in store[i] : e.id = id

\* C6: the result is the multiset union of what the answering sources
\* returned: each of their events once, with its own times, nothing else,
\* and an event two sources hold appears twice.
C6_MultisetUnion ==
    IsRequest =>
        /\ \A i \in CalIdx \ down : \A id \in InRange(i) :
               Cardinality({k \in 1..Len(events) :
                               /\ events[k].id = id
                               /\ events[k].calendarId = CALENDAR_IDS[i]}) = 1
        /\ \A k \in 1..Len(events) :
               /\ CalPos(events[k].calendarId) \in CalIdx \ down
               /\ events[k].id \in InRange(CalPos(events[k].calendarId))
               /\ events[k].start = Held(CalPos(events[k].calendarId), events[k].id).start
               /\ events[k].end = Held(CalPos(events[k].calendarId), events[k].id).end

\* Both sources answered and hold the same event: it is returned twice.
C6_Witness ==
    /\ op = "getEventsForRange"
    /\ down = {}
    /\ \E i, j \in 1..Len(events) :
        /\ i # j
        /\ events[i].id = events[j].id
        /\ events[i].calendarId # events[j].calendarId

-----------------------------------------------------------------------------
(* PROPERTIES: the fuzzy event matcher *)

IsSearch == op = "searchEventsByText"

\* The normalized query: lowercased and trimmed.
NormalQuery == trim(toLowerCase(query))

\* q occurs in text at some offset.
Occurs(q, text) ==
    \E off \in 0..(Len(text) - Len(q)) : \A k \in 1..Len(q) : text[off + k] = q[k]

\* The whitespace-delimited tokens of q: its maximal runs without whitespace.
TokenSet(q) ==
    {SubSeq(q, p[1], p[2]) :
        p \in {p \in (1..Len(q)) \X (1..Len(q)) :
                  /\ p[1] <= p[2]
                  /\ (p[1] = 1 \/ IsSpace(q[p[1] - 1]))
                  /\ (p[2] = Len(q) \/ IsSpace(q[p[2] + 1]))
                  /\ \A k \in p[1]..p[2] : ~IsSpace(q[k])}}

Title(e) == toLowerCase(e.summary)
Description(e) == toLowerCase(e.description)

\* Tier 2, toks being the tokens of the query that are not stopwords: there
\* is such a token, and each occurs in the title or in the description.
Tier2(e, toks) ==
    /\ toks # {}
    /\ \A t \in toks : Occurs(t, Title(e)) \/ Occurs(t, Description(e))

\* Tier 1 as the claim has it: q occurs in the title or in the description.
Tier1_InEither(e, q) == Occurs(q, Title(e)) \/ Occurs(q, Description(e))

\* Tier 1 of the code: q occurs in the title, a space, the description.
Tier1_InJoined(e, q) == Occurs(q, Title(e) \o <<" ">> \o Description(e))

\* C7 as stated: for a non-empty normalized query the matches are exactly
\* the events of the range query, in its order, for which the query occurs
\* in the title or in the description (tier 1) or every token that is not a
\* stopword occurs in them, there being such a token (tier 2).
C7_MatchesTitleOrDescription ==
    IsSearch =>
        \A q \in {NormalQuery} : q # <<>> =>
            \A toks \in {TokenSet(q) \ stopwords} :
                matches = SelectSeq(events, LAMBDA e : Tier1_InEither(e, q) \/ Tier2(e, toks))

\* C7 as amended: tier 1 is an occurrence of the query in the text made of
\* the title, one space and the description, so that a query may match
\* across the end of the title and the start of the description.
C7_MatchesJoinedText ==
    IsSearch =>
        \A q \in {NormalQuery} : q # <<>> =>
            \A toks \in {TokenSet(q) \ stopwords} :
                matches = SelectSeq(events, LAMBDA e : Tier1_InJoined(e, q) \/ Tier2(e, toks))

\* A search returned some of the events and not others, one of them by
\* tier 2 alone.
C7_Witness ==
    /\ IsSearch
    /\ NormalQuery # <<>>
    /\ Len(matches) >= 1
    /\ Len(matches) < Len(events)
    /\ \E k \in 1..Len(matches) : ~Tier1_InJoined(matches[k], NormalQuery)

HasTitle(e, title) == e.summary = title

Tok_sergio == <<"s", "e", "r", "g", "i", "o">>
Tok_call == <<"c", "a", "l", "l">>

Matched(title) == \E k \in 1..Len(matches) : HasTitle(matches[k], title)
Fetched(title) == \E k \in 1..Len(events) : HasTitle(events[k], title)

\* The tokens the matcher keeps of the request's query.
KeptTokens ==
    {tokensOf(NormalQuery)[k] : k \in 1..Len(tokensOf(NormalQuery))}

\* C8 as stated: "gym" matches "Morning Gym Session"; "cancel the sergio
\* call" keeps the tokens sergio and call, matches "Sergio - Strategy Call"
\* and does not match "Sergio's Birthday".
C8_SergioCallOnly ==
    IsSearch =>
        /\ (NormalQuery = Q_gym /\ Fetched(Str_MorningGym)) => Matched(Str_MorningGym)
        /\ query = Q_cancelSergio =>
            /\ KeptTokens = {Tok_sergio, Tok_call}
            /\ Fetched(Str_SergioCall) => Matched(Str_SergioCall)
            /\ ~Matched(Str_SergioBirthday)

\* C8 as amended: "call" is a stopword, so "cancel the sergio call" keeps
\* the token sergio alone and matches both "Sergio - Strategy Call" and
\* "Sergio's Birthday"; "gym" matches "Morning Gym Session".
C8_SergioCallAndBirthday ==
    IsSearch =>
        /\ (NormalQuery = Q_gym /\ Fetched(Str_MorningGym)) => Matched(Str_MorningGym)
        /\ query = Q_cancelSergio =>
            /\ KeptTokens = {Tok_sergio}
            /\ Fetched(Str_SergioCall) => Matched(Str_SergioCall)
            /\ Fetched(Str_SergioBirthday) => Matched(Str_SergioBirthday)

\* "cancel the sergio call" returned both the call and the birthday.
C8_Witness ==
    /\ IsSearch
    /\ query = Q_cancelSergio
    /\ Matched(Str_SergioCall)
    /\ Matched(Str_SergioBirthday)

-----------------------------------------------------------------------------
(* PROPERTIES: gaps, all-day events and long durations in the slot finder *)

\* The busy intervals the sweep runs over: one per fetched event.
Busy ==
    {[start |-> DateOf(events[j].start), end |-> DateOf(events[j].end)] :
        j \in 1..Len(events)}

\* [a, b) is a maximal free gap of the window: it lies in the window, meets
\* no busy interval, and each of its ends is a window edge or the edge of a
\* busy interval.
IsGap(a, b) ==
    /\ WindowStart <= a /\ a < b /\ b <= WindowEnd
    /\ \A x \in Busy : ~Overlaps([start |-> a, end |-> b], x)
    /\ a = WindowStart \/ \E x \in Busy : x.start < x.end /\ x.end = a
    /\ b = WindowEnd \/ \E x \in Busy : x.start < x.end /\ x.start = b

GapStarts == {WindowStart} \cup {x.end : x \in Busy}
GapEnds == {WindowEnd} \cup {x.start : x \in Busy}

\* The returned slots that start inside [a, b).
SlotsIn(a, b) == {k \in 1..Len(free) : a <= free[k].start /\ free[k].start < b}

IsTimed(e) == "dateTime" \in DOMAIN e.start /\ "dateTime" \in DOMAIN e.end

\* C12: findOpenSlots discards the events that have no time of day: an
\* all-day event never blocks the cursor, and the slots returned are those
\* that would be returned if the fetched events had no all-day event.
C12_AllDayNeverBlocks ==
    (IsSlotsRequest /\ dur > 0) =>
        free = slotsOf([events |-> SelectSeq(events, IsTimed),
                        calls |-> calls, threw |-> threw],
                       0, dur * 60, limit).free

\* C13: when the duration is longer than the window findOpenSlots returns
\* no slot, whatever events the date has.
C13_DurationBeyondWindow ==
    (IsSlotsRequest /\ dur * 60 > WindowEnd - WindowStart) => free = <<>>

-----------------------------------------------------------------------------
(* PROPERTIES: what the reader does to the events it returns *)

Scheme_http == <<"h", "t", "t", "p", ":", "/", "/">>
Scheme_https == <<"h", "t", "t", "p", "s", ":", "/", "/">>

\* text holds a URL: a scheme followed by a character that is not whitespace.
HasUrl(text) ==
    \E sch \in {Scheme_http, Scheme_https} :
        \E off \in 0..(Len(text) - Len(sch) - 1) :
            /\ \A k \in 1..Len(sch) : text[off + k] = sch[k]
            /\ ~IsSpace(text[off + Len(sch) + 1])

FreeTextFields == {"summary", "description", "location"}

\* C14: no title, description or location of an event returned by
\* getEventsForRange, getEventsForDate or searchEventsByText holds an
\* http:// or https:// URL.
C14_NoUrlInFreeText ==
    IsRequest =>
        /\ \A k \in 1..Len(events) : \A f \in FreeTextFields :
               ~HasUrl(Prop(events[k], f))
        /\ \A k \in 1..Len(matches) : \A f \in FreeTextFields :
               ~HasUrl(Prop(matches[k], f))

\* C15: every all-day event getEventsForRange returns has instants for its
\* ends: its start is the start of its first day and its end is the end of
\* its last day (23:59:59, or the midnight that follows), in the zone of
\* the calendar.
C15_AllDayNormalized ==
    IsRequest =>
        \A k \in 1..Len(events) :
            \A h \in {Held(CalPos(events[k].calendarId), events[k].id)} :
                "date" \in DOMAIN h.start =>
                    /\ IsTimed(events[k])
                    /\ events[k].start.dateTime = h.start.date * Day
                    /\ events[k].end.dateTime \in {h.end.date * Day - 1, h.end.date * Day}

-----------------------------------------------------------------------------
(* PROPERTIES: create, cancel, reschedule *)

IsRead == op = "getEventsForDate"
IsCreate == op = "createEvent"
IsCancel == op = "cancelEventById"
IsReschedule == op = "rescheduleEventById"

\* The pairs (calendarId, id) of the events the caller has from its read.
ReadPairs ==
    {[calendarId |-> events[k].calendarId, eventId |-> events[k].id] :
        k \in 1..Len(events)}

BothGiven(a) == Given(a, "calendarId") /\ Given(a, "eventId")

\* C16: every event a read returns carries the calendarId of a source that
\* holds an event of that id; a cancel or a reschedule made with the
\* (calendarId, id) of a returned event is sent to that calendar, is not
\* answered "not found", and when the backend carries it out it changes
\* that source alone.
C16_TaggedWithHoldingSource ==
    /\ IsRead =>
        \A k \in 1..Len(events) :
            /\ Given(events[k], "calendarId")
            /\ CalKnown(events[k].calendarId)
            /\ SourceOf(events[k].calendarId) \notin down
            /\ \E e \in store[SourceOf(events[k].calendarId)] : e.id = events[k].id
    /\ ((IsCancel \/ IsReschedule) /\ BothGiven(mut.args) /\ mut.args \in ReadPairs) =>
        /\ Len(calls) = 1
        /\ calls[1].calendarId = mut.args.calendarId
        /\ calls[1].eventId = mut.args.eventId
        /\ mut.status # "notFound"
        /\ \E e \in mut.before[SourceOf(mut.args.calendarId)] : e.id = mut.args.eventId
        /\ \A i \in CalIdx \ {SourceOf(mut.args.calendarId)} : store[i] = mut.before[i]
        /\ (IsCancel /\ mut.status = "ok") =>
               \A e \in store[SourceOf(mut.args.calendarId)] : e.id # mut.args.eventId

\* The event of a read that both sources hold was cancelled with the id of
\* the second calendar: the second source lost it, the first still has it.
C16_Witness ==
    /\ IsCancel
    /\ BothGiven(mut.args)
    /\ mut.args \in ReadPairs
    /\ mut.status = "ok"
    /\ mut.args.calendarId = CALENDAR_IDS[2]
    /\ \E e \in store[1] : e.id = mut.args.eventId
    /\ \A e \in store[2] : e.id # mut.args.eventId

\* The event createEvent returned, as the source holds it.
Created == CHOOSE e \in store[SourceOf(mut.ids[1])] : e.id = mut.returned.id

\* C17: with a calendar configured createEvent makes exactly one insert
\* call, on the first configured calendar; when the backend accepts it the
\* event is added to that source and to no other, and is returned tagged
\* with that calendar's id; when it refuses, the error is raised and nothing
\* changes.  With no calendar configured createEvent raises an error and
\* makes no call.
C17_CreateInsertsIntoFirst ==
    IsCreate =>
        IF mut.ids = <<>>
        THEN threw /\ calls = <<>> /\ store = mut.before
        ELSE /\ calls = <<[api |-> "insert", calendarId |-> mut.ids[1]]>>
             /\ threw = (mut.status # "ok")
             /\ threw => store = mut.before
             /\ ~threw =>
                 /\ mut.returned.calendarId = mut.ids[1]
                 /\ \A e \in mut.before[SourceOf(mut.ids[1])] : e.id # mut.returned.id
                 /\ mut.returned = [calendarId |-> mut.ids[1]] @@ Created
                 /\ store = [mut.before EXCEPT ![SourceOf(mut.ids[1])] = @ \cup {Created}]
                 /\ Created.start.dateTime = mut.args.start
                 /\ Created.end.dateTime = mut.args.end

\* With two calendars configured, both holding events, an event was created.
C17_Witness ==
    /\ IsCreate
    /\ Len(mut.ids) = 2
    /\ ~threw
    /\ mut.before[1] # {} /\ mut.before[2] # {}
    /\ store[2] = mut.before[2]
    /\ Cardinality(store[1]) = Cardinality(mut.before[1]) + 1

\* C18: createEvent with a range that does not end after it starts, or
\* without a title, raises an error at once and makes no insert call.
C18_CreateRejectsInvalidInput ==
    (IsCreate /\ mut.ids # <<>>
              /\ (~Given(mut.args, "title") \/ mut.args.start >= mut.args.end)) =>
        threw /\ calls = <<>>

\* C19: findOpenSlots with a duration that is not positive raises an error,
\* makes no list call and returns no slot.
C19_MalformedDurationRejected ==
    (IsSlotsRequest /\ dur <= 0) => threw /\ calls = <<>> /\ free = <<>>

\* C20: cancelEventById and rescheduleEventById with an identifier missing
\* raise an error and make no call; with both they make exactly one delete
\* (patch) call for that pair, and when the backend rejects it the error is
\* raised, nothing is changed and no second call is made.
C20_BothIdentifiersRequired ==
    (IsCancel \/ IsReschedule) =>
        IF ~BothGiven(mut.args)
        THEN threw /\ calls = <<>> /\ store = mut.before
        ELSE /\ Len(calls) = 1
             /\ calls[1].api = (IF IsCancel THEN "delete" ELSE "patch")
             /\ calls[1].calendarId = mut.args.calendarId
             /\ calls[1].eventId = mut.args.eventId
             /\ threw = (mut.status # "ok")
             /\ threw => store = mut.before

\* A reschedule with both identifiers that the backend rejected.
C20_Witness ==
    /\ IsReschedule
    /\ BothGiven(mut.args)
    /\ mut.status = "unavailable"
    /\ threw
    /\ Len(calls) = 1
    /\ store = mut.before

\* The mutation made was a rescheduleEventById the backend carried out.
Rescheduled == mut.done /\ Given(mut, "newStart") /\ mut.status = "ok"

\* C21: a rescheduleEventById that succeeds changes only the times of the
\* event it names: the source holds that event with start = newStart and
\* end = newEnd and every other attribute as before, every other event of
\* every source is as before, and a read made afterwards returns the event
\* with the new times and its title and description.
C21_RescheduleChangesTimesOnly ==
    /\ (IsReschedule /\ Rescheduled) =>
        \A i \in CalIdx :
            /\ Cardinality(store[i]) = Cardinality(mut.before[i])
            /\ \A e \in mut.before[i] :
                IF i = SourceOf(mut.args.calendarId) /\ e.id = mut.args.eventId
                THEN \E n \in store[i] :
                        /\ n.id = e.id
                        /\ DateOf(n.start) = mut.newStart
                        /\ DateOf(n.end) = mut.newEnd
                        /\ DOMAIN n = DOMAIN e
                        /\ \A f \in DOMAIN e \ {"start", "end"} : n[f] = e[f]
                ELSE e \in store[i]
    /\ (IsRead /\ Rescheduled /\ SourceOf(mut.args.calendarId) \notin down) =>
        \A old \in {e \in mut.before[SourceOf(mut.args.calendarId)] :
                       e.id = mut.args.eventId} :
            \E k \in 1..Len(events) :
                /\ events[k].calendarId = mut.args.calendarId
                /\ events[k].id = mut.args.eventId
                /\ DateOf(events[k].start) = mut.newStart
                /\ DateOf(events[k].end) = mut.newEnd
                /\ events[k].summary = stripUrls(Prop(old, "summary"))
                /\ events[k].description = stripUrls(Prop(old, "description"))

\* The read after the reschedule of an event both sources hold returned it
\* twice, once moved and once where it was.
C21_Witness ==
    /\ IsRead
    /\ Rescheduled
    /\ down = {}
    /\ \E j, k \in 1..Len(events) :
        /\ events[j].id = mut.args.eventId
        /\ events[j].calendarId = mut.args.calendarId
        /\ DateOf(events[j].start) = mut.newStart
        /\ events[k].id = mut.args.eventId
        /\ events[k].calendarId # mut.args.calendarId
        /\ DateOf(events[k].start) # mut.newStart

-----------------------------------------------------------------------------
(* PROPERTIES: reading twice *)

-----------------------------------------------------------------------------
(* PROPERTIES: the limit, the cursor and the order of the slots *)

\* What findOpenSlots returns for the events and the duration of the request
\* when the limit is the default one, which no day of events reaches.
Unlimited ==
    slotsOf([events |-> events, calls |-> calls, threw |-> threw],
            0, dur * 60, DEFAULT_LIMIT).free

\* C24: for a limit k >= 1 findOpenSlots returns the first min(k, n) of the
\* n slots it returns without an effective limit: never more than k, and
\* the same slots in the same order.
C24_LimitTruncates ==
    (IsSlotsRequest /\ limit >= 1 /\ dur > 0) =>
        \A u \in {Unlimited} :
            /\ Len(free) <= limit
            /\ free = SubSeq(u, 1, IF limit < Len(u) THEN limit ELSE Len(u))

\* A request with limit 2 on a day that has three slots or more.
C24_Witness ==
    /\ IsSlotsRequest
    /\ limit = 2
    /\ Len(free) = 2
    /\ Len(Unlimited) >= 3

\* The busy intervals of the request in the order the sweep takes them.
BusySeq == sortBusy(busyOf(events))

\* The sweep after its first k iterations: [free, cursor, returned].
SweepAfter(B, k) ==
    sweep([free |-> <<>>, cursor |-> WindowStart, returned |-> FALSE],
          SubSeq(B, 1, k), 1, dur * 60, limit)

\* C25: the cursor of the sweep never moves backward.  It starts at the
\* start of the window; an iteration that does not end the sweep leaves it
\* at or after where it was, at or after the start of the window and at or
\* after the end of every interval taken so far; an interval that ends at or
\* before the cursor changes nothing and emits nothing; an interval that
\* starts before the window and ends after the cursor moves the cursor to
\* its end.
C25_CursorNeverBackward ==
    (IsSlotsRequest /\ dur > 0) =>
        \A B \in {BusySeq} :
            /\ SweepAfter(B, 0).cursor = WindowStart
            /\ \A k \in 1..Len(B) :
                 \A pre \in {SweepAfter(B, k - 1)}, post \in {SweepAfter(B, k)} :
                     ~pre.returned =>
                         /\ post.cursor >= pre.cursor
                         /\ post.cursor >= WindowStart
                         /\ ~post.returned => \A j \in 1..k : post.cursor >= B[j].end
                         /\ B[k].end <= pre.cursor => post = pre
                         /\ (B[k].start < WindowStart /\ B[k].end > pre.cursor) =>
                                post.cursor = B[k].end /\ post.free = pre.free

\* A day with an event that starts before the window and ends inside it,
\* and a later interval that ends before the cursor.
C25_Witness ==
    /\ IsSlotsRequest
    /\ dur > 0
    /\ \E k \in 1..Len(BusySeq) :
        /\ BusySeq[k].start < WindowStart
        /\ BusySeq[k].end > WindowStart
        /\ BusySeq[k].end < WindowEnd
    /\ \E k \in 1..Len(BusySeq) :
        /\ ~SweepAfter(BusySeq, k - 1).returned
        /\ BusySeq[k].end < SweepAfter(BusySeq, k - 1).cursor
        /\ BusySeq[k].end > WindowStart

\* C26: the slots findOpenSlots returns are in chronological order and do
\* not overlap: each ends at or before the start of the next, and a busy
\* interval lies between the two.
C26_SlotsInOrder ==
    (IsSlotsRequest /\ dur > 0) =>
        \A k \in 1..(Len(free) - 1) :
            /\ free[k].start < free[k + 1].start
            /\ free[k].end <= free[k + 1].start
            /\ \E b \in Busy :
                /\ b.start < b.end
                /\ free[k].end <= b.start
                /\ b.end <= free[k + 1].start

\* Two slots were returned on a day that has two events back to back in
\* the window, and none of them starts where the two events meet.
C26_Witness ==
    /\ IsSlotsRequest
    /\ dur > 0
    /\ Len(free) >= 2
    /\ \E a, b \in Busy :
        /\ a.end = b.start /\ a.end > WindowStart /\ a.end < WindowEnd
        /\ \A k \in 1..Len(free) : free[k].start # a.end

-----------------------------------------------------------------------------
(* PROPERTIES: the chat handlers of src/index.js *)

\* The request names an insert call among its backend calls.
InsertIssued == \E k \in 1..Len(calls) : calls[k].api = "insert"
DeleteIssued == \E k \in 1..Len(calls) : calls[k].api = "delete"
PatchIssued == \E k \in 1..Len(calls) : calls[k].api = "patch"

\* The working-hours window [MIN_HOUR:00, MAX_HOUR:00) of a day, as times of day.
InWindow(c) == At(MIN_HOUR, 0) <= At(c[1], c[2]) /\ At(c[1], c[2]) < At(MAX_HOUR, 0)

\* The request has a title and a day, so that its start time is looked at.
WellFormedCreate ==
    /\ op = "handleCreateEvent"
    /\ Truthy(intent, "title")
    /\ (Truthy(intent, "date") => intent.date = Str_tomorrow)

\* C23: for a request with an explicit start time, handleCreateEvent calls
\* createEvent only if the start lies within [08:00, 22:00); for a start
\* outside that window it replies with a refusal and issues no insert.
C23_HoursBeforeWrite ==
    WellFormedCreate =>
        \A c \in Clock :
            Prop(intent, "start_time") = hhmm(c) =>
                /\ InsertIssued => InWindow(c)
                /\ ~InWindow(c) => reply = "outsideHours" /\ ~InsertIssued

\* The calls of the request that change a calendar.
MutationCalls == SelectSeq(calls, LAMBDA c : c.api \in {"insert", "delete", "patch"})

\* C28: when searchEventsByText returns two or more matches, the cancel and
\* reschedule handlers issue no delete and no patch and reply with a numbered
\* list; with exactly one match the cancel handler issues exactly one delete,
\* for that match's (calendarId, id); with no match no mutation is issued.
C28_AmbiguityNeverMutates ==
    op \in {"handleCancel", "handleCancelEvent", "handleReschedule"} =>
        /\ Len(matches) >= 2 => MutationCalls = <<>> /\ reply = "list"
        /\ Len(matches) = 1 /\ op # "handleReschedule" =>
               MutationCalls = <<[api |-> "delete", calendarId |-> matches[1].calendarId,
                                  eventId |-> matches[1].id]>>
        /\ Len(matches) = 0 => MutationCalls = <<>>

\* handleCancelEvent found several events, cancelled none and keeps them as
\* the pending choice of the user.
C28_Witness ==
    /\ op = "handleCancelEvent"
    /\ Len(matches) >= 2
    /\ MutationCalls = <<>>
    /\ sessions[intent.user].mode = "cancel_select"
    /\ sessions[intent.user].events = matches

-----------------------------------------------------------------------------
(* PROPERTIES: the pending choices of src/pilot.js *)

\* The handlers that wait for the answer to a change made from a pending choice.
FromChoice == {p \in BagToSet(procs) : "sid" \in DOMAIN p}

\* C27: once a valid numeric reply selects an option, the user's session is
\* cleared before the backend call is awaited, so under any interleaving of
\* message handlers at most one cancel or create is issued per stored pending
\* choice.
C27_PendingChoiceSingleUse ==
    /\ \A x \in BagToSet(issued) :
           /\ CopiesIn(x, issued) = 1
           /\ \A y \in BagToSet(issued) : y.sid = x.sid => y = x
    /\ \A p \in FromChoice, u \in Users :
           sessions[u] # NoSession => sessions[u].sid # p.sid

\* A second "1" of a user arrives while the cancel made from the first is
\* awaited: it finds no pending choice.
C27_Witness ==
    /\ op = "handleUserMessage"
    /\ intent.text = T_1
    /\ intent.route = "intent"
    /\ \E p \in FromChoice : p.user = intent.user /\ p.pc = "cancel"

\* C29: a pending choice stored for a user is never read, consumed,
\* overwritten or cleared while handling a message from a different user, so
\* one user's numeric reply never cancels or creates what was offered to
\* another.
C29_SessionsPerUser ==
    [][ /\ \A v \in Users : sessions'[v] # sessions[v] => intent'.user = v
        /\ \A v \in Users : sessions'[v] # NoSession => sessions'[v].owner = v
        /\ \A x \in BagToSet(issued') : x.by = x.owner ]_vars

\* User B answers "1" while a choice is pending for user A, which stays.
C29_Witness ==
    /\ op = "handleUserMessage"
    /\ intent.user = "B"
    /\ intent.text = T_1
    /\ sessions["A"].mode = "cancel_select"
    /\ issued = EmptyBag

\* The text is a number, and one of the options of the pending choice.
IsNumber(text) == trim(text) # <<>> /\ \A i \in 1..Len(trim(text)) : IsDigit(trim(text)[i])
NumOptions(session) ==
    IF session.mode = "cancel_select" THEN Len(session.events) ELSE Len(session.slots)
IsOption(text, session) ==
    /\ IsNumber(text)
    /\ DigitsValue(trim(text)) >= 1
    /\ DigitsValue(trim(text)) <= NumOptions(session)

\* C30: while a session is pending for a user, every message from that user
\* goes to handlePendingFlow and never to the greeting or the intent
\* handling; a reply that is not a number, or a number outside
\* 1..(number of options), leaves the session unchanged and issues no
\* calendar read or mutation.
C30_PendingConsumesEveryMessage ==
    [][ (received' = received + 1 /\ sessions[intent'.user] # NoSession) =>
            /\ intent'.route = "pending"
            /\ ~IsOption(intent'.text, sessions[intent'.user]) =>
                   /\ sessions' = sessions
                   /\ procs' = procs
                   /\ issued' = issued
                   /\ store' = store ]_vars

=============================================================================
